---- MODULE Spec2Model ----
(***************************************************************************)
(* Distance tracking and reset recovery of the live timing system:         *)
(*   F1LiveTiming.calculate_distance_traveled  (core/timing_engine.py)     *)
(*   DistanceResetHandler                      (core/distance_reset_handler.py) *)
(*                                                                         *)
(* Units.  Time is in seconds and speed in km/h, as in the source.  A      *)
(* distance is an integer number of units of KMH_S_PER_UNIT km/h*s         *)
(* (10 km/h*s = 25/9 m), so that speed * 1000/3600 * seconds is the        *)
(* integer speed * seconds / 10 for the speeds of the model (multiples of  *)
(* 10 km/h).  Implied speeds, percentages, confidences and interpolated    *)
(* distances are exact rationals [n, d].  Latitudes are integer ticks of   *)
(* FLAT_UNITS_PER_TICK distance units; every valid longitude of the model  *)
(* is LON0, so all GPS motion is along one meridian, where the flat-earth  *)
(* segment is |dlat| * 111000 m and the haversine segment is               *)
(* |dlat| * 6371000 * pi/180 m = 1.0017561 times the flat-earth one        *)
(* (571/570 in the model).                                                 *)
(***************************************************************************)
EXTENDS Integers, Sequences, FiniteSets, TLC

VARIABLES
    car_data,          \* F1LiveTiming.car_data: car id -> samples sorted by timeStamp
    distance_history,  \* DistanceResetHandler.distance_history: car id -> <<[time, distance]>>
    reset_events,      \* DistanceResetHandler.reset_events
    recovery_stats,    \* DistanceResetHandler.recovery_stats
    distance_cache,    \* F1LiveTiming.distance_cache, in insertion order
    appended,          \* history: every point ever passed to _add_to_history, per car
    answered,          \* history: time and result of every cache-missing computation, per car
    ncalls,            \* number of calls that changed the engine (bounds the exploration)
    last,              \* what the last completed call did and returned
    f1_current_time,   \* F1LiveTiming.current_time (f1_timing.current_time)
    is_running,        \* F1LiveTiming.is_running
    loops,             \* number of live timing_loop threads
    writers,           \* history: the threads that have written engine or handler state
    status_pc,         \* position of a get_car_distance_status call in progress
    status,            \* the dictionary that call is building
    returned_stats,    \* 'recovery_stats' of the last get_monitoring_status result
    in_flight,         \* thread id -> local state of the handler or loop it is running
    monitoring,        \* the dictionary the last get_monitoring_status call returned
    current_rankings,  \* F1LiveTiming.current_rankings (car ids in ranking order)
    race_finished,     \* number of 'race_finished' messages emitted
    connected_clients, \* connected_clients of the WebSocket handlers
    last_request       \* the last of the start, stop and reset requests that completed

engine_vars == <<car_data, distance_history, reset_events, recovery_stats,
                 distance_cache, appended, answered, ncalls, last>>

server_vars == <<f1_current_time, is_running, loops, writers, status_pc, status,
                 returned_stats>>

thread_vars == <<in_flight, monitoring, current_rankings, race_finished, connected_clients, last_request>>

vars == <<car_data, distance_history, reset_events, recovery_stats,
          distance_cache, appended, answered, ncalls, last,
          f1_current_time, is_running, loops, writers, status_pc, status, returned_stats,
          in_flight, monitoring, current_rankings, race_finished, connected_clients,
          last_request>>

----------------------------------------------------------------------------
(* Configuration (config.py) and literals of the source.                   *)

DROP_THRESHOLD_PERCENT == 80
SPEED_ANOMALY_THRESHOLD == 150
INTERPOLATION_MAX_GAP_SECONDS == 60
LARGE_GAP_SECONDS == 300
GPS_MISMATCH_PERCENT == 50
SPEED_CONFIDENCE_KMH == 200

\* Scaled configuration: the source ships MAX_HISTORY_SIZE = 1000,
\* DISTANCE_CACHE_SIZE = 1000 and CACHE_CLEANUP_THRESHOLD = 200.
MAX_HISTORY_SIZE == 3
DISTANCE_CACHE_SIZE == 2
CACHE_CLEANUP_THRESHOLD == 1

\* Number of cache-missing distance calls, and of direct detector calls, explored.
MaxCalls == 4
MaxDetectCalls == 3

KMH_S_PER_UNIT == 10
FLAT_UNITS_PER_TICK == 570
HAVERSINE_UNITS_PER_TICK == 571
MAX_LAT_TICKS == 6309
MAX_LON_DEGREES == 180
NaN == -999999

----------------------------------------------------------------------------
(* Exact arithmetic.                                                       *)

Abs(x) == IF x < 0 THEN -x ELSE x

RECURSIVE GCD(_, _)
GCD(a, b) == IF b = 0 THEN a ELSE GCD(b, a % b)

\* The rational n/d (d > 0) in lowest terms.
Rat(n, d) == LET g == GCD(Abs(n), d) IN [n |-> n \div g, d |-> d \div g]

RatInt(i) == [n |-> i, d |-> 1]
RatLT(a, b) == a.n * b.d < b.n * a.d
RatLE(a, b) == a.n * b.d <= b.n * a.d
RatMin(a, b) == IF RatLT(b, a) THEN b ELSE a
RatAddInt(a, i) == [n |-> a.n + i * a.d, d |-> a.d]
RatOne == RatInt(1)
RatZero == RatInt(0)

\* Floor of the square root (exact on the squares the model produces).
ISqrt(s) == CHOOSE r \in 0..s : r * r <= s /\ (r + 1) * (r + 1) > s

Last(seq) == seq[Len(seq)]

----------------------------------------------------------------------------
(* Telemetry samples.                                                      *)

IsNaN(v) == v = NaN

SampleTimes == <<0, 60, 120, 180>>
QueryTimes == {SampleTimes[i] : i \in 1..Len(SampleTimes)}

LON0 == 7
LAT_OUT_OF_RANGE == MAX_LAT_TICKS + 1

Kind(speed, lat, lon, x) == [speed |-> speed, lat |-> lat, lon |-> lon, x |-> x, y |-> 0]

\* Samples without position: a plausible speed, an implausible one, no speed.
SpeedKinds == {Kind(100, 0, 0, 0), Kind(200, 0, 0, 0), Kind(NaN, 0, 0, 30)}
\* Samples with position: two places two ticks apart and a latitude above 90 degrees.
GpsKinds == {Kind(100, 0, 0, 0), Kind(100, 1, LON0, 0), Kind(100, 3, LON0, 0),
             Kind(100, LAT_OUT_OF_RANGE, LON0, 0)}

Stamp(kinds) ==
    [i \in 1..Len(SampleTimes) |->
        [timeStamp |-> SampleTimes[i], speed |-> kinds[i].speed, lat |-> kinds[i].lat,
         lon |-> kinds[i].lon, x |-> kinds[i].x, y |-> kinds[i].y]]

Datasets ==
    {Stamp(k) : k \in [1..Len(SampleTimes) -> SpeedKinds]}
        \cup {Stamp(k) : k \in [1..Len(SampleTimes) -> GpsKinds]}

Cars == {1}

\* df.loc[df['timeStamp'] <= up_to_time]
UpTo(data, t) == SelectSeq(data, LAMBDA s : s.timeStamp <= t)

----------------------------------------------------------------------------
(* 4.1 Preliminary distance.                                               *)

\* (lat != 0.0) & (lon != 0.0) & ~lat.isna() & ~lon.isna()
ValidGpsMask(s) == s.lat # 0 /\ s.lon # 0 /\ ~IsNaN(s.lat) /\ ~IsNaN(s.lon)

\* speed.notna() & (speed >= 0)
ValidSpeedMask(s) == ~IsNaN(s.speed) /\ s.speed >= 0

\* sqrt((dlat*111000)^2 + (dlon*111000*cos(lat))^2), where dlon = 0: every
\* row that passes ValidGpsMask has longitude LON0.
FlatEarthSegment(p, q) == Abs(q.lat - p.lat) * FLAT_UNITS_PER_TICK

RECURSIVE FlatEarthSum(_)
FlatEarthSum(pts) ==
    IF Len(pts) < 2 THEN 0
    ELSE FlatEarthSum(SubSeq(pts, 1, Len(pts) - 1))
         + FlatEarthSegment(pts[Len(pts) - 1], pts[Len(pts)])

\* A segment that leaves out the conversion from km/h to m/s.
SpeedSegmentUnconverted(p, q) ==
    LET seg == q.speed * (q.timeStamp - p.timeStamp)
    IN  IF seg >= 0 THEN seg ELSE 0

\* speed * 1000/3600 * time_diff, kept when >= 0 (the first row's diff is NaN)
SpeedSegment(p, q) ==
    LET seg == (q.speed * (q.timeStamp - p.timeStamp)) \div KMH_S_PER_UNIT
    IN  IF seg >= 0 THEN seg ELSE 0

RECURSIVE SpeedSum(_)
SpeedSum(pts) ==
    IF Len(pts) < 2 THEN 0
    ELSE SpeedSum(SubSeq(pts, 1, Len(pts) - 1))
         + SpeedSegment(pts[Len(pts) - 1], pts[Len(pts)])

XYSegment(p, q) == ISqrt((q.x - p.x) * (q.x - p.x) + (q.y - p.y) * (q.y - p.y))

RECURSIVE XYSum(_)
XYSum(pts) ==
    IF Len(pts) < 2 THEN 0
    ELSE XYSum(SubSeq(pts, 1, Len(pts) - 1)) + XYSegment(pts[Len(pts) - 1], pts[Len(pts)])

\* The tier _calculate_preliminary_distance uses for these rows.
PreliminaryTier(pos) ==
    IF Len(SelectSeq(pos, ValidGpsMask)) >= 2 THEN "gps"
    ELSE IF Len(SelectSeq(pos, ValidSpeedMask)) >= 2 THEN "speed"
    ELSE "xy"

PreliminaryDistance(pos) ==
    IF PreliminaryTier(pos) = "gps" THEN FlatEarthSum(SelectSeq(pos, ValidGpsMask))
    ELSE IF PreliminaryTier(pos) = "speed" THEN SpeedSum(SelectSeq(pos, ValidSpeedMask))
    ELSE XYSum(pos)

----------------------------------------------------------------------------
(* GPS helpers of the handler.                                             *)

\* _is_valid_gps_coordinate
IsValidGpsCoordinate(lat, lon) ==
    IF IsNaN(lat) \/ IsNaN(lon) THEN FALSE
    ELSE IF lat = 0 /\ lon = 0 THEN FALSE
    ELSE IF ~(-MAX_LAT_TICKS <= lat /\ lat <= MAX_LAT_TICKS
              /\ -MAX_LON_DEGREES <= lon /\ lon <= MAX_LON_DEGREES) THEN FALSE
    ELSE TRUE

\* _haversine_distance, along the meridian: R * |dlat| in radians
HaversineDistance(p, q) == Abs(q.lat - p.lat) * HAVERSINE_UNITS_PER_TICK

RECURSIVE HaversineSum(_)
HaversineSum(pts) ==
    IF Len(pts) < 2 THEN 0
    ELSE HaversineSum(SubSeq(pts, 1, Len(pts) - 1))
         + (IF IsValidGpsCoordinate(pts[Len(pts) - 1].lat, pts[Len(pts) - 1].lon)
               /\ IsValidGpsCoordinate(pts[Len(pts)].lat, pts[Len(pts)].lon)
            THEN HaversineDistance(pts[Len(pts) - 1], pts[Len(pts)])
            ELSE 0)

\* _calculate_gps_distance_from_start
GpsDistanceFromStart(data, target_time) ==
    LET gps_data == UpTo(data, target_time)
        gps_points == SelectSeq(gps_data, ValidGpsMask)
    IN  IF Len(gps_data) < 2 THEN 0
        ELSE IF Len(gps_points) < 2 THEN 0
        ELSE HaversineSum(gps_points)

\* idxmin of |timeStamp - target_time|: the first row at the least distance
ClosestIndex(data, target_time) ==
    CHOOSE i \in 1..Len(data) :
        /\ \A j \in 1..Len(data) :
              Abs(data[i].timeStamp - target_time) <= Abs(data[j].timeStamp - target_time)
        /\ \A j \in 1..(i - 1) :
              Abs(data[j].timeStamp - target_time) > Abs(data[i].timeStamp - target_time)

\* _get_position_data_at_time returned a row (not None) with a valid coordinate
HasValidPositionAt(data, target_time) ==
    /\ Len(data) > 0
    /\ IsValidGpsCoordinate(data[ClosestIndex(data, target_time)].lat,
                            data[ClosestIndex(data, target_time)].lon)

----------------------------------------------------------------------------
(* DistanceHistory.                                                        *)

Point(time, distance) == [time |-> time, distance |-> distance]

\* A trim that keeps history[:max_history], the oldest points.
AddToHistoryKeepsOldest(history, timestamp, distance) ==
    LET h == Append(history, Point(timestamp, distance))
    IN  IF Len(h) > MAX_HISTORY_SIZE THEN SubSeq(h, 1, MAX_HISTORY_SIZE) ELSE h

\* _add_to_history: append, then history[:] = history[-max_history:]
AddToHistory(history, timestamp, distance) ==
    LET h == Append(history, Point(timestamp, distance))
    IN  IF Len(h) > MAX_HISTORY_SIZE
        THEN SubSeq(h, Len(h) - MAX_HISTORY_SIZE + 1, Len(h))
        ELSE h

----------------------------------------------------------------------------
(* 4.2 Reset detection.                                                    *)

\* An event that carries the id of car 1 whichever car it is made for.
ResetEventOfFirstCar(car_id, timestamp, prev_distance, current_distance, drop_percentage, reset_type, confidence) ==
    [car_id |-> 1, timestamp |-> timestamp, prev_distance |-> prev_distance,
     current_distance |-> current_distance, drop_percentage |-> drop_percentage,
     reset_type |-> reset_type, recovery_method |-> "", confidence |-> confidence]

\* DistanceResetEvent (details, a diagnostic dictionary, is left out)
ResetEvent(car_id, timestamp, prev_distance, current_distance, drop_percentage, reset_type, confidence) ==
    [car_id |-> car_id, timestamp |-> timestamp, prev_distance |-> prev_distance,
     current_distance |-> current_distance, drop_percentage |-> drop_percentage,
     reset_type |-> reset_type, recovery_method |-> "", confidence |-> confidence]

NoEvent == ResetEvent(0, 0, 0, 0, RatZero, "none", RatZero)

\* drop_percentage = (prev_distance - current_distance) / prev_distance * 100
DropPercentage(prev_distance, current_distance) ==
    Rat((prev_distance - current_distance) * 100, prev_distance)

\* A drop check that fires at the threshold (>= instead of >).
DropCheckAtThreshold(prev_distance, current_distance) ==
    /\ prev_distance > 0
    /\ current_distance < prev_distance
    /\ RatLE(RatInt(DROP_THRESHOLD_PERCENT), DropPercentage(prev_distance, current_distance))

\* prev_distance > 0 and current_distance < prev_distance and
\* drop_percentage > self.drop_threshold
DropCheck(prev_distance, current_distance) ==
    /\ prev_distance > 0
    /\ current_distance < prev_distance
    /\ RatLT(RatInt(DROP_THRESHOLD_PERCENT), DropPercentage(prev_distance, current_distance))

\* An implied speed from the signed change of distance.
ImpliedSpeedKmhSigned(prev_distance, current_distance, time_diff) ==
    Rat((current_distance - prev_distance) * KMH_S_PER_UNIT, time_diff)

\* implied_speed_kmh = |current - prev| / time_diff * 3.6
ImpliedSpeedKmh(prev_distance, current_distance, time_diff) ==
    Rat(Abs(current_distance - prev_distance) * KMH_S_PER_UNIT, time_diff)

SpeedCheck(prev_distance, current_distance, time_diff) ==
    /\ time_diff > 0
    /\ RatLT(RatInt(SPEED_ANOMALY_THRESHOLD),
             ImpliedSpeedKmh(prev_distance, current_distance, time_diff))

\* diff_percentage = |current - gps| / max(gps, 1) * 100; a positive gps distance
\* of the model is at least one unit, more than 1 m, so max(gps, 1) = gps.
GpsDiffPercentage(current_distance, gps_distance) ==
    Rat(Abs(current_distance - gps_distance) * 100, gps_distance)

GpsCheck(data, current_time, current_distance) ==
    /\ HasValidPositionAt(data, current_time)
    /\ GpsDistanceFromStart(data, current_time) > 0
    /\ RatLT(RatInt(GPS_MISMATCH_PERCENT),
             GpsDiffPercentage(current_distance, GpsDistanceFromStart(data, current_time)))

\* p / 100 without the clamp at 1.0.
PercentConfidenceUnclamped(p) == Rat(p.n, p.d * 100)

\* min(p / 100, 1.0)
PercentConfidence(p) == RatMin(Rat(p.n, p.d * 100), RatOne)

\* implied_speed_kmh / 200 without the clamp at 1.0.
SpeedConfidenceUnclamped(implied_speed_kmh) ==
    Rat(implied_speed_kmh.n, implied_speed_kmh.d * SPEED_CONFIDENCE_KMH)

\* min(implied_speed_kmh / 200, 1.0)
SpeedConfidence(implied_speed_kmh) ==
    RatMin(Rat(implied_speed_kmh.n, implied_speed_kmh.d * SPEED_CONFIDENCE_KMH), RatOne)

\* A data gap that is never recognised.
IsDataGapNever(time_diff) == FALSE

\* time_diff > 300: too much time has passed, the checks are skipped
IsDataGap(time_diff) == time_diff > LARGE_GAP_SECONDS

\* The detection methods with the speed check ahead of the drop check.
FirstMatchingCheckSpeedFirst(prev_distance, current_distance, time_diff, data, current_time) ==
    IF SpeedCheck(prev_distance, current_distance, time_diff) THEN "speed_anomaly"
    ELSE IF DropCheck(prev_distance, current_distance) THEN "distance_drop"
    ELSE IF GpsCheck(data, current_time, current_distance) THEN "gps_mismatch"
    ELSE "none"

\* Detection methods 1, 2, 3 in the order of the source; each returns its event
\* at once, so the first whose condition holds decides the type.
FirstMatchingCheck(prev_distance, current_distance, time_diff, data, current_time) ==
    IF DropCheck(prev_distance, current_distance) THEN "distance_drop"
    ELSE IF SpeedCheck(prev_distance, current_distance, time_diff) THEN "speed_anomaly"
    ELSE IF GpsCheck(data, current_time, current_distance) THEN "gps_mismatch"
    ELSE "none"

\* A return of None that forgets to record the point.
RecordedWithoutAppend(history, current_time, current_distance) ==
    [flagged |-> FALSE, event |-> NoEvent, history |-> history]

\* self._add_to_history(car_id, current_time, current_distance); return None
Recorded(history, current_time, current_distance) ==
    [flagged |-> FALSE, event |-> NoEvent,
     history |-> AddToHistory(history, current_time, current_distance)]

\* detect_distance_reset on one car's history: whether an event is returned,
\* the event, and the history afterwards.
DetectDistanceReset(history, car_id, current_time, current_distance, data) ==
    LET prev == Last(history)
        time_diff == current_time - prev.time
        recorded == Recorded(history, current_time, current_distance)
        reset_type == FirstMatchingCheck(prev.distance, current_distance, time_diff,
                                         data, current_time)
        Flag(ev) == [flagged |-> TRUE, event |-> ev, history |-> history]
    IN  IF Len(history) = 0 THEN recorded
        ELSE IF IsDataGap(time_diff) THEN recorded
        ELSE IF reset_type = "distance_drop"
        THEN Flag(ResetEvent(car_id, current_time, prev.distance, current_distance,
                             DropPercentage(prev.distance, current_distance), "distance_drop",
                             PercentConfidence(DropPercentage(prev.distance, current_distance))))
        ELSE IF reset_type = "speed_anomaly"
        THEN Flag(ResetEvent(car_id, current_time, prev.distance, current_distance,
                             RatZero, "speed_anomaly",
                             SpeedConfidence(ImpliedSpeedKmh(prev.distance, current_distance,
                                                             time_diff))))
        ELSE IF reset_type = "gps_mismatch"
        THEN Flag(ResetEvent(car_id, current_time, prev.distance, current_distance,
                             GpsDiffPercentage(current_distance,
                                               GpsDistanceFromStart(data, current_time)),
                             "gps_mismatch",
                             PercentConfidence(
                                 GpsDiffPercentage(current_distance,
                                                   GpsDistanceFromStart(data, current_time)))))
        ELSE recorded

----------------------------------------------------------------------------
(* 4.3 Recovery chain.                                                     *)

\* RecoveryResult (metadata, a diagnostic dictionary, is left out)
Result(success, recovered_distance, method_used, confidence, error_message) ==
    [success |-> success, recovered_distance |-> recovered_distance,
     method_used |-> method_used, confidence |-> confidence,
     error_message |-> error_message]

Failed(method_used, error_message) ==
    Result(FALSE, RatZero, method_used, RatZero, error_message)

NoRecovery == Result(FALSE, RatZero, "none", RatZero, "")

\* The loop of _recover_by_speed_integration over rows 1..k of speed_data:
\* a row with NaN or negative speed adds nothing; the others add
\* min(speed, threshold) * 1000/3600 * (time since the previous row).
RECURSIVE IntegrateSpeed(_, _, _)
IntegrateSpeed(speed_data, last_good_time, k) ==
    IF k = 0 THEN 0
    ELSE LET row == speed_data[k]
             time_diff == IF k = 1 THEN row.timeStamp - last_good_time
                          ELSE row.timeStamp - speed_data[k - 1].timeStamp
             speed_kmh == IF row.speed < SPEED_ANOMALY_THRESHOLD THEN row.speed
                          ELSE SPEED_ANOMALY_THRESHOLD
         IN  IntegrateSpeed(speed_data, last_good_time, k - 1)
             + (IF IsNaN(row.speed) \/ row.speed < 0 THEN 0
                ELSE (speed_kmh * time_diff) \div KMH_S_PER_UNIT)

\* Speed integration without the upper limit of its plausibility check.
RecoverBySpeedIntegrationNoUpperLimit(history, data, event) ==
    IF Len(history) < 2 THEN Failed("speed_integration", "Insufficient history")
    ELSE LET last_good == history[Len(history) - 1]
             speed_data == SelectSeq(data, LAMBDA r : r.timeStamp > last_good.time
                                                      /\ r.timeStamp <= event.timestamp)
             recovered == last_good.distance
                          + IntegrateSpeed(speed_data, last_good.time, Len(speed_data))
         IN  IF Len(speed_data) = 0
             THEN Failed("speed_integration", "No speed data available")
             ELSE IF recovered > last_good.distance
             THEN Result(TRUE, RatInt(recovered), "speed_integration", Rat(9, 10), "")
             ELSE Failed("speed_integration", "Unrealistic result")

\* Recovery method 1
RecoverBySpeedIntegration(history, data, event) ==
    IF Len(history) < 2 THEN Failed("speed_integration", "Insufficient history")
    ELSE LET last_good == history[Len(history) - 1]
             speed_data == SelectSeq(data, LAMBDA r : r.timeStamp > last_good.time
                                                      /\ r.timeStamp <= event.timestamp)
             recovered == last_good.distance
                          + IntegrateSpeed(speed_data, last_good.time, Len(speed_data))
         IN  IF Len(speed_data) = 0
             THEN Failed("speed_integration", "No speed data available")
             ELSE IF recovered > last_good.distance /\ recovered < last_good.distance * 3
             THEN Result(TRUE, RatInt(recovered), "speed_integration", Rat(9, 10), "")
             ELSE Failed("speed_integration", "Unrealistic result")

\* GPS recovery without the sanity check against the history.
RecoverByGpsUnchecked(history, data, event) ==
    LET gps_distance == GpsDistanceFromStart(data, event.timestamp)
    IN  IF gps_distance <= 0 THEN Failed("gps_recovery", "Invalid GPS distance")
        ELSE Result(TRUE, RatInt(gps_distance), "gps_recovery", Rat(8, 10), "")

\* Recovery method 2
RecoverByGps(history, data, event) ==
    LET gps_distance == GpsDistanceFromStart(data, event.timestamp)
    IN  IF gps_distance <= 0 THEN Failed("gps_recovery", "Invalid GPS distance")
        ELSE IF Len(history) > 0 /\ 2 * gps_distance < Last(history).distance
        THEN Failed("gps_recovery", "GPS distance too low")
        ELSE Result(TRUE, RatInt(gps_distance), "gps_recovery", Rat(8, 10), "")

\* Interpolation that accepts any average speed of the last three points.
RecoverByInterpolationAnySpeed(history, data, event) ==
    IF Len(history) < 3
    THEN Failed("linear_interpolation", "Insufficient history for interpolation")
    ELSE LET first == history[Len(history) - 2]
             last_good == history[Len(history)]
             total_distance_change == last_good.distance - first.distance
             total_time_change == last_good.time - first.time
             time_diff == event.timestamp - last_good.time
         IN  IF total_time_change <= 0
             THEN Failed("linear_interpolation", "Invalid time range")
             ELSE IF time_diff > INTERPOLATION_MAX_GAP_SECONDS
             THEN Failed("linear_interpolation", "Time gap too large for interpolation")
             ELSE Result(TRUE,
                         RatAddInt(Rat(total_distance_change * time_diff, total_time_change),
                                   last_good.distance),
                         "linear_interpolation", Rat(7, 10), "")

\* Recovery method 3
RecoverByInterpolation(history, data, event) ==
    IF Len(history) < 3
    THEN Failed("linear_interpolation", "Insufficient history for interpolation")
    ELSE LET first == history[Len(history) - 2]
             last_good == history[Len(history)]
             total_distance_change == last_good.distance - first.distance
             total_time_change == last_good.time - first.time
             time_diff == event.timestamp - last_good.time
         IN  IF total_time_change <= 0
             THEN Failed("linear_interpolation", "Invalid time range")
             \* avg_speed_kmh = change / time * 3.6 above the threshold, or negative
             ELSE IF total_distance_change * KMH_S_PER_UNIT
                         > SPEED_ANOMALY_THRESHOLD * total_time_change
                     \/ total_distance_change < 0
             THEN Failed("linear_interpolation", "Unrealistic average speed")
             ELSE IF time_diff > INTERPOLATION_MAX_GAP_SECONDS
             THEN Failed("linear_interpolation", "Time gap too large for interpolation")
             ELSE Result(TRUE,
                         RatAddInt(Rat(total_distance_change * time_diff, total_time_change),
                                   last_good.distance),
                         "linear_interpolation", Rat(7, 10), "")

\* A fallback that gives up when there is no reading to skip.
RecoverByFallbackNeedsTwo(history, event) ==
    IF Len(history) >= 2
    THEN Result(TRUE, RatInt(history[Len(history) - 1].distance), "fallback", Rat(5, 10), "")
    ELSE Failed("fallback", "No good distance")

\* Recovery method 4
RecoverByFallback(history, event) ==
    Result(TRUE,
           RatInt(IF Len(history) > 0
                  THEN (IF Len(history) >= 2 THEN history[Len(history) - 1].distance
                        ELSE history[Len(history)].distance)
                  ELSE event.prev_distance),
           "fallback", Rat(5, 10), "")

\* The chain with GPS recovery tried before speed integration.
RecoverDistanceGpsFirst(history, data, event) ==
    LET by_speed == RecoverBySpeedIntegration(history, data, event)
        by_gps == RecoverByGps(history, data, event)
        by_interpolation == RecoverByInterpolation(history, data, event)
    IN  IF by_gps.success
        THEN [result |-> by_gps, recovery_method |-> "gps_recovery"]
        ELSE IF by_speed.success
        THEN [result |-> by_speed, recovery_method |-> "speed_integration"]
        ELSE IF by_interpolation.success
        THEN [result |-> by_interpolation, recovery_method |-> "linear_interpolation"]
        ELSE [result |-> RecoverByFallback(history, event), recovery_method |-> "fallback"]

\* recover_distance: the strategies in the source's order; the result returned
\* and the name written to reset_event.recovery_method and counted in
\* recovery_stats.  The fallback's result is returned without a look at its flag.
RecoverDistance(history, data, event) ==
    LET by_speed == RecoverBySpeedIntegration(history, data, event)
        by_gps == RecoverByGps(history, data, event)
        by_interpolation == RecoverByInterpolation(history, data, event)
    IN  IF by_speed.success
        THEN [result |-> by_speed, recovery_method |-> "speed_integration"]
        ELSE IF by_gps.success
        THEN [result |-> by_gps, recovery_method |-> "gps_recovery"]
        ELSE IF by_interpolation.success
        THEN [result |-> by_interpolation, recovery_method |-> "linear_interpolation"]
        ELSE [result |-> RecoverByFallback(history, event), recovery_method |-> "fallback"]

\* State written by detect_distance_reset when it returns an event ...
EventsAfterDetect(events, detection) ==
    IF detection.flagged THEN Append(events, detection.event) ELSE events

StatsAfterDetect(stats, detection) ==
    IF detection.flagged THEN [stats EXCEPT !.total_resets = @ + 1] ELSE stats

\* ... and by recover_distance: reset_event is the object detect appended last.
EventsAfterRecover(events, method) ==
    [events EXCEPT ![Len(events)].recovery_method = method]

StatsAfterRecover(stats, method) == [stats EXCEPT ![method] = @ + 1]

----------------------------------------------------------------------------
(* DistanceCache.                                                          *)

\* f"{car_id}_{up_to_time.timestamp()}"
CacheKey(car_id, up_to_time) == <<car_id, up_to_time>>

CacheHas(cache, key) == \E i \in 1..Len(cache) : cache[i].key = key

\* A lookup that reads the oldest entry whatever the key.
CacheGetFirst(cache, key) == cache[1].value

CacheGet(cache, key) == cache[CHOOSE i \in 1..Len(cache) : cache[i].key = key].value

\* A size limit that evicts as soon as the cache is full (>= instead of >).
CacheStoreEvictsAtLimit(cache, key, value) ==
    LET stored == Append(cache, [key |-> key, value |-> value])
    IN  IF Len(stored) >= DISTANCE_CACHE_SIZE
        THEN SubSeq(stored, CACHE_CLEANUP_THRESHOLD + 1, Len(stored))
        ELSE stored

\* A size limit that deletes the newest keys instead of the oldest.
CacheStoreEvictsNewest(cache, key, value) ==
    LET stored == Append(cache, [key |-> key, value |-> value])
    IN  IF Len(stored) > DISTANCE_CACHE_SIZE
        THEN SubSeq(stored, 1, Len(stored) - CACHE_CLEANUP_THRESHOLD)
        ELSE stored

\* distance_cache[cache_key] = final_distance, then the size limit: delete the
\* first CACHE_CLEANUP_THRESHOLD keys of the insertion order.
CacheStore(cache, key, value) ==
    LET stored == IF CacheHas(cache, key)
                  THEN [i \in 1..Len(cache) |->
                           IF cache[i].key = key THEN [key |-> key, value |-> value]
                           ELSE cache[i]]
                  ELSE Append(cache, [key |-> key, value |-> value])
        removed == IF CACHE_CLEANUP_THRESHOLD < Len(stored) THEN CACHE_CLEANUP_THRESHOLD
                   ELSE Len(stored)
    IN  IF Len(stored) > DISTANCE_CACHE_SIZE
        THEN SubSeq(stored, removed + 1, Len(stored))
        ELSE stored

----------------------------------------------------------------------------
(* 4.4 The engine.                                                         *)

CallRecord(op, car, time, outcome, tier, preliminary, detection, recovery, branch, result) ==
    [op |-> op, car |-> car, time |-> time, outcome |-> outcome, tier |-> tier,
     preliminary |-> preliminary, flagged |-> detection.flagged, event |-> detection.event,
     recorded |-> (outcome = "computed" /\ ~detection.flagged),
     recovery |-> recovery, branch |-> branch, result |-> result]

NoDetection == [flagged |-> FALSE, event |-> NoEvent, history |-> << >>]

\* race_start_time: the latest first timestamp among the cars
RaceStartTime(data) ==
    CHOOSE t \in {data[c][1].timeStamp : c \in DOMAIN data} :
        \A c \in DOMAIN data : data[c][1].timeStamp <= t

\* end_time of start_live_timing: the latest timestamp of all cars
EndTime(data) ==
    CHOOSE t \in {data[c][Len(data[c])].timeStamp : c \in DOMAIN data} :
        \A c \in DOMAIN data : data[c][Len(data[c])].timeStamp <= t

\* The result of get_car_distance_status being built; `live` tells whether its
\* local `history` is the car's list in distance_history (the key was present)
\* or the empty default of .get(car_id, []).
NoStatus == [car_id |-> 0, live |-> FALSE, history_points |-> 0, last_update |-> NaN, current_distance |-> 0, reset_events_count |-> 0]

\* No get_monitoring_status result has been handed out yet.
NoReturnedStats ==
    [valid |-> FALSE, shared |-> FALSE,
     stats |-> [speed_integration |-> 0, gps_recovery |-> 0, linear_interpolation |-> 0,
                fallback |-> 0, total_resets |-> 0]]

\* Handing out self.recovery_stats itself.
ShareStats(stats) == [valid |-> TRUE, shared |-> TRUE, stats |-> stats]

\* self.recovery_stats.copy(): a dictionary of its own in the result
CopyStats(stats) == [valid |-> TRUE, shared |-> FALSE, stats |-> stats]

\* The server state after F1LiveTiming.__init__ and load_car_data.
InitServerState ==
    /\ f1_current_time = RaceStartTime(car_data)
    /\ is_running = FALSE
    /\ loops = 0
    /\ writers = {}
    /\ status_pc = "idle"
    /\ status = NoStatus
    /\ returned_stats = NoReturnedStats

\* No get_monitoring_status result has been returned yet.
NoMonitoring == [valid |-> FALSE, total_resets_detected |-> 0, recovery_stats |-> NoReturnedStats.stats, success_rates |-> << >>, recent_events |-> << >>]

\* No handler is in progress, no rankings are published, no client is connected.
InitThreadState ==
    /\ in_flight = << >>
    /\ monitoring = NoMonitoring
    /\ current_rankings = << >>
    /\ race_finished = 0
    /\ connected_clients = {}
    /\ last_request = "none"

Init ==
    /\ car_data \in [Cars -> Datasets]
    /\ distance_history = [c \in Cars |-> << >>]
    /\ reset_events = << >>
    /\ recovery_stats = [speed_integration |-> 0, gps_recovery |-> 0,
                         linear_interpolation |-> 0, fallback |-> 0, total_resets |-> 0]
    /\ distance_cache = << >>
    /\ appended = [c \in Cars |-> << >>]
    /\ answered = [c \in Cars |-> << >>]
    /\ ncalls = 0
    /\ last = CallRecord("init", 0, 0, "none", "none", 0, NoDetection, NoRecovery,
                         "none", RatZero)
    /\ InitServerState
    /\ InitThreadState

\* A length test that lets a single row through (< 1 instead of < 2).
HasTooFewSamplesOffByOne(car_positions) == Len(car_positions) < 1

\* len(car_positions) < 2
HasTooFewSamples(car_positions) == Len(car_positions) < 2

\* calculate_distance_traveled, cache hit: return distance_cache[cache_key]
CacheHit(car_id, up_to_time) ==
    /\ CacheHas(distance_cache, CacheKey(car_id, up_to_time))
    /\ last' = CallRecord("distance", car_id, up_to_time, "hit", "none", 0, NoDetection,
                          NoRecovery, "none",
                          CacheGet(distance_cache, CacheKey(car_id, up_to_time)))
    /\ UNCHANGED <<car_data, distance_history, reset_events, recovery_stats,
                   distance_cache, appended, answered, ncalls>>

\* calculate_distance_traveled, fewer than 2 rows up to the time: return 0.0
TooFewSamples(car_id, up_to_time) ==
    /\ ~CacheHas(distance_cache, CacheKey(car_id, up_to_time))
    /\ HasTooFewSamples(UpTo(car_data[car_id], up_to_time))
    /\ last' = CallRecord("distance", car_id, up_to_time, "short", "none", 0, NoDetection,
                          NoRecovery, "none", RatZero)
    /\ UNCHANGED <<car_data, distance_history, reset_events, recovery_stats,
                   distance_cache, appended, answered, ncalls>>

\* A final distance that ignores the recovery result.
FinalDistanceKeepsPreliminary(preliminary_distance, flagged, recovery_result) ==
    RatInt(preliminary_distance)

\* final_distance of calculate_distance_traveled
FinalDistance(preliminary_distance, flagged, recovery_result) ==
    IF flagged /\ recovery_result.success THEN recovery_result.recovered_distance
    ELSE RatInt(preliminary_distance)

\* calculate_distance_traveled, cache miss with at least 2 rows: preliminary
\* distance, detection, recovery of a flagged value, cache store with eviction.
ComputeDistance(car_id, up_to_time) ==
    /\ ~CacheHas(distance_cache, CacheKey(car_id, up_to_time))
    /\ ~HasTooFewSamples(UpTo(car_data[car_id], up_to_time))
    /\ ncalls < MaxCalls
    /\ \E preliminary_distance \in {PreliminaryDistance(UpTo(car_data[car_id], up_to_time))} :
       \E detection \in {DetectDistanceReset(distance_history[car_id], car_id, up_to_time,
                                             preliminary_distance, car_data[car_id])} :
       \E recovery \in {IF detection.flagged
                        THEN RecoverDistance(detection.history, car_data[car_id],
                                             detection.event)
                        ELSE [result |-> NoRecovery, recovery_method |-> "none"]} :
       \E recovery_result \in {recovery.result} :
       \E final_distance \in {FinalDistance(preliminary_distance, detection.flagged,
                                            recovery_result)} :
          /\ distance_history' = [distance_history EXCEPT ![car_id] = detection.history]
          /\ appended' = IF detection.flagged THEN appended
                         ELSE [appended EXCEPT
                                  ![car_id] = Append(@, Point(up_to_time, preliminary_distance))]
          /\ reset_events' =
                IF detection.flagged
                THEN EventsAfterRecover(EventsAfterDetect(reset_events, detection),
                                        recovery.recovery_method)
                ELSE reset_events
          /\ recovery_stats' =
                IF detection.flagged
                THEN StatsAfterRecover(StatsAfterDetect(recovery_stats, detection),
                                       recovery.recovery_method)
                ELSE recovery_stats
          /\ distance_cache' = CacheStore(distance_cache, CacheKey(car_id, up_to_time),
                                          final_distance)
          /\ answered' = [answered EXCEPT
                              ![car_id] = Append(@, [time |-> up_to_time,
                                                     result |-> final_distance])]
          /\ ncalls' = ncalls + 1
          /\ last' = CallRecord("distance", car_id, up_to_time, "computed",
                                PreliminaryTier(UpTo(car_data[car_id], up_to_time)),
                                preliminary_distance, detection, recovery_result,
                                IF ~detection.flagged THEN "none"
                                ELSE IF recovery_result.success THEN "recovered"
                                ELSE "recovery_failed",
                                final_distance)
          /\ UNCHANGED car_data

CalculateDistanceTraveled(car_id, up_to_time) ==
    \/ CacheHit(car_id, up_to_time)
    \/ TooFewSamples(car_id, up_to_time)
    \/ ComputeDistance(car_id, up_to_time)

Next ==
    /\ \E car_id \in DOMAIN car_data, up_to_time \in QueryTimes :
          CalculateDistanceTraveled(car_id, up_to_time)
    /\ UNCHANGED <<server_vars, thread_vars>>

Spec == Init /\ [][Next]_vars

----------------------------------------------------------------------------
(* The detector driven directly through DistanceResetHandler's interface,  *)
(* with any time and any distance.                                         *)

\* Gaps of 30 s and 60 s, gaps over LARGE_GAP_SECONDS, repeated and earlier times.
DetectTimes == {0, 30, 60, 400}
\* From 1000: drops of 75%, exactly 80%, 85% and 105% (to a negative distance).
DetectDistances == {-50, 150, 200, 250, 1000}

\* Rows without position, and rows whose haversine distance is 571 from t = 60 on.
DetectDatasets ==
    {Stamp([i \in 1..Len(SampleTimes) |-> Kind(100, 0, 0, 0)]),
     Stamp([i \in 1..Len(SampleTimes) |->
               IF i = 1 THEN Kind(100, 1, LON0, 0) ELSE Kind(100, 2, LON0, 0)])}

InitDetect ==
    /\ car_data \in [Cars -> DetectDatasets]
    /\ distance_history = [c \in Cars |-> << >>]
    /\ reset_events = << >>
    /\ recovery_stats = [speed_integration |-> 0, gps_recovery |-> 0,
                         linear_interpolation |-> 0, fallback |-> 0, total_resets |-> 0]
    /\ distance_cache = << >>
    /\ appended = [c \in Cars |-> << >>]
    /\ answered = [c \in Cars |-> << >>]
    /\ ncalls = 0
    /\ last = CallRecord("init", 0, 0, "none", "none", 0, NoDetection, NoRecovery,
                         "none", RatZero)
    /\ InitServerState
    /\ InitThreadState

\* One call of detect_distance_reset.
DetectCall(car_id, current_time, current_distance) ==
    /\ ncalls < MaxDetectCalls
    /\ \E detection \in {DetectDistanceReset(distance_history[car_id], car_id, current_time,
                                             current_distance, car_data[car_id])} :
          /\ distance_history' = [distance_history EXCEPT ![car_id] = detection.history]
          /\ appended' = IF detection.flagged THEN appended
                         ELSE [appended EXCEPT
                                  ![car_id] = Append(@, Point(current_time, current_distance))]
          /\ reset_events' = EventsAfterDetect(reset_events, detection)
          /\ recovery_stats' = StatsAfterDetect(recovery_stats, detection)
          /\ last' = CallRecord("detect", car_id, current_time, "computed", "none",
                                current_distance, detection, NoRecovery, "none", RatZero)
    /\ ncalls' = ncalls + 1
    /\ UNCHANGED <<car_data, distance_cache, answered>>

\* One call of recover_distance with the event the detector has just returned.
RecoverCall ==
    /\ last.op = "detect" /\ last.flagged
    /\ ncalls < MaxDetectCalls
    /\ \E recovery \in {RecoverDistance(distance_history[last.car], car_data[last.car],
                                        last.event)} :
          /\ reset_events' = EventsAfterRecover(reset_events, recovery.recovery_method)
          /\ recovery_stats' = StatsAfterRecover(recovery_stats, recovery.recovery_method)
          /\ last' = CallRecord("recover", last.car, last.time, "computed", "none",
                                last.preliminary,
                                [flagged |-> TRUE, event |-> last.event,
                                 history |-> distance_history[last.car]],
                                recovery.result, "none", RatZero)
    /\ ncalls' = ncalls + 1
    /\ UNCHANGED <<car_data, distance_history, distance_cache, appended, answered>>

NextDetect ==
    /\ \/ \E car_id \in DOMAIN car_data, detect_time \in DetectTimes,
             current_distance \in DetectDistances :
               DetectCall(car_id, detect_time, current_distance)
       \/ RecoverCall
    /\ UNCHANGED <<server_vars, thread_vars>>

SpecDetect == InitDetect /\ [][NextDetect]_vars

----------------------------------------------------------------------------
(* The server: the timing-loop thread started by start_live_timing and the *)
(* request threads of the HTTP routes and WebSocket handlers, all working  *)
(* on the one F1LiveTiming object without a lock.  A loop iteration and a  *)
(* distance request are each taken as one step; get_car_distance_status is *)
(* taken read by read, so that writes of other threads fall between its    *)
(* reads.                                                                  *)

UPDATE_INTERVAL == 1
\* The simulation runs at the highest speed set_simulation_speed accepts.
MAX_SPEED == 10
MaxLoopThreads == 2

\* race_time_advance_seconds = self.update_interval * self.simulation_speed
RaceTimeAdvance == UPDATE_INTERVAL * MAX_SPEED

ServerRow(t, speed) == [timeStamp |-> t, speed |-> speed, lat |-> 0, lon |-> 0, x |-> 0, y |-> 0]

\* Rows every RaceTimeAdvance seconds: a steady 100 km/h, and one ending at 200 km/h.
ServerDatasets ==
    {<<ServerRow(0, 100), ServerRow(RaceTimeAdvance, 100),
       ServerRow(2 * RaceTimeAdvance, 100), ServerRow(3 * RaceTimeAdvance, final_speed)>> :
         final_speed \in {100, 200}}

InitServer ==
    /\ car_data \in [Cars -> ServerDatasets]
    /\ distance_history = [c \in Cars |-> << >>]
    /\ reset_events = << >>
    /\ recovery_stats = [speed_integration |-> 0, gps_recovery |-> 0,
                         linear_interpolation |-> 0, fallback |-> 0, total_resets |-> 0]
    /\ distance_cache = << >>
    /\ appended = [c \in Cars |-> << >>]
    /\ answered = [c \in Cars |-> << >>]
    /\ ncalls = 0
    /\ last = CallRecord("init", 0, 0, "none", "none", 0, NoDetection, NoRecovery,
                         "none", RatZero)
    /\ InitServerState
    /\ InitThreadState

\* The threads that have written the histories, the event log, the counters or
\* the cache, once `thread` has made the step.
WritersAfter(thread) ==
    IF <<distance_history', reset_events', recovery_stats', distance_cache'>>
           # <<distance_history, reset_events, recovery_stats, distance_cache>>
    THEN writers \cup {thread}
    ELSE writers

\* start_live_timing: is_running = True and a new timing_loop thread
StartLiveTiming ==
    /\ loops < MaxLoopThreads
    /\ is_running' = TRUE
    /\ loops' = loops + 1
    /\ UNCHANGED <<engine_vars, f1_current_time, writers, status_pc, status, returned_stats>>

\* stop_live_timing
StopLiveTiming ==
    /\ is_running' = FALSE
    /\ UNCHANGED <<engine_vars, f1_current_time, loops, writers, status_pc, status,
                   returned_stats>>

\* reset_race (route and WebSocket handler): stop, current_time = race_start_time
ResetRace ==
    /\ is_running' = FALSE
    /\ f1_current_time' = RaceStartTime(car_data)
    /\ UNCHANGED <<engine_vars, loops, writers, status_pc, status, returned_stats>>

\* One iteration of timing_loop: calculate_live_rankings computes the distance of
\* every car at current_time (one car here), then current_time advances.
TimingLoopIteration ==
    /\ loops > 0
    /\ is_running /\ f1_current_time <= EndTime(car_data)
    /\ \E car_id \in DOMAIN car_data : CalculateDistanceTraveled(car_id, f1_current_time)
    /\ f1_current_time' = f1_current_time + RaceTimeAdvance
    /\ writers' = WritersAfter("timing_loop")
    /\ UNCHANGED <<is_running, loops, status_pc, status, returned_stats>>

\* The end of timing_loop: the while condition fails; past end_time the thread
\* sets current_time back to race_start_time.
TimingLoopExit ==
    /\ loops > 0
    /\ ~(is_running /\ f1_current_time <= EndTime(car_data))
    /\ loops' = loops - 1
    /\ f1_current_time' = IF f1_current_time > EndTime(car_data)
                          THEN RaceStartTime(car_data) ELSE f1_current_time
    /\ UNCHANGED <<engine_vars, is_running, writers, status_pc, status, returned_stats>>

\* request_forecast, /api/speed-requirements and the other forecast routes, on a
\* request thread: calculate_distance_traveled(car, f1_timing.current_time) for
\* the chasing and the target car.  With one car the second call finds what the
\* first left (a cache hit, or again too few rows) and changes nothing.
HandleForecastRequest ==
    /\ \E car_id \in DOMAIN car_data : CalculateDistanceTraveled(car_id, f1_current_time)
    /\ writers' = WritersAfter("request")
    /\ UNCHANGED <<f1_current_time, is_running, loops, status_pc, status, returned_stats>>

\* The list the status query reads: the car's own list, which the writers
\* append to and trim in place, or the empty default.
StatusHistory == IF status.live THEN distance_history[status.car_id] ELSE << >>

\* get_car_distance_status on a request thread: history and car_events are
\* bound first ...
StatusBegin(car_id) ==
    /\ status_pc \in {"idle", "done"}
    /\ status_pc' = "history_points"
    /\ status' = [NoStatus EXCEPT
                     !.car_id = car_id,
                     !.live = Len(distance_history[car_id]) > 0,
                     !.reset_events_count =
                         Len(SelectSeq(reset_events, LAMBDA e : e.car_id = car_id))]
    /\ UNCHANGED <<engine_vars, f1_current_time, is_running, loops, writers, returned_stats>>

\* ... then 'history_points': len(history)
StatusReadHistoryPoints ==
    /\ status_pc = "history_points"
    /\ status_pc' = "last_update"
    /\ status' = [status EXCEPT !.history_points = Len(StatusHistory)]
    /\ UNCHANGED <<engine_vars, f1_current_time, is_running, loops, writers, returned_stats>>

\* ... then 'last_update': history[-1][0] if history else None
StatusReadLastUpdate ==
    /\ status_pc = "last_update"
    /\ status_pc' = "current_distance"
    /\ status' = [status EXCEPT
                     !.last_update = IF Len(StatusHistory) > 0
                                     THEN Last(StatusHistory).time
                                     ELSE NaN]
    /\ UNCHANGED <<engine_vars, f1_current_time, is_running, loops, writers, returned_stats>>

\* ... then 'current_distance': history[-1][1] if history else 0, and the return
StatusReadCurrentDistance ==
    /\ status_pc = "current_distance"
    /\ status_pc' = "done"
    /\ status' = [status EXCEPT
                     !.current_distance = IF Len(StatusHistory) > 0
                                          THEN Last(StatusHistory).distance
                                          ELSE 0]
    /\ UNCHANGED <<engine_vars, f1_current_time, is_running, loops, writers, returned_stats>>

GetCarDistanceStatus ==
    \/ \E car_id \in DOMAIN car_data : StatusBegin(car_id)
    \/ StatusReadHistoryPoints
    \/ StatusReadLastUpdate
    \/ StatusReadCurrentDistance

\* get_monitoring_status: 'recovery_stats': self.recovery_stats.copy()
GetMonitoringStatus ==
    /\ returned_stats' = CopyStats(recovery_stats)
    /\ UNCHANGED <<engine_vars, f1_current_time, is_running, loops, writers, status_pc, status>>

\* The caller writes into the dictionary it was given; a dictionary shared with
\* the handler would change the handler's counters with it.
ModifyReturnedStats ==
    /\ returned_stats.valid
    /\ returned_stats.stats.total_resets >= 0
    /\ returned_stats' = [returned_stats EXCEPT !.stats.total_resets = -1]
    /\ recovery_stats' = IF returned_stats.shared
                         THEN [recovery_stats EXCEPT !.total_resets = -1]
                         ELSE recovery_stats
    /\ UNCHANGED <<car_data, distance_history, reset_events, distance_cache, appended,
                   answered, ncalls, last, f1_current_time, is_running, loops, writers,
                   status_pc, status>>

NextServer ==
    /\ \/ StartLiveTiming
       \/ StopLiveTiming
       \/ ResetRace
       \/ TimingLoopIteration
       \/ TimingLoopExit
       \/ HandleForecastRequest
       \/ GetCarDistanceStatus
       \/ GetMonitoringStatus
       \/ ModifyReturnedStats
    /\ UNCHANGED thread_vars

SpecServer == InitServer /\ [][NextServer]_vars

----------------------------------------------------------------------------
(* Two vehicles on the one engine: the histories are kept per car id, the  *)
(* event log, the counters and the cache are shared.                       *)

FleetCars == {1, 2}

\* A steady 100 km/h, and two runs with rows at 200 km/h (an implied speed over
\* SPEED_ANOMALY_THRESHOLD between the queries around them).
FleetDatasets ==
    {Stamp([i \in 1..Len(SampleTimes) |-> Kind(100, 0, 0, 0)]),
     Stamp([i \in 1..Len(SampleTimes) |->
               IF i > 2 THEN Kind(200, 0, 0, 0) ELSE Kind(100, 0, 0, 0)]),
     Stamp([i \in 1..Len(SampleTimes) |->
               IF i = 2 THEN Kind(200, 0, 0, 0) ELSE Kind(100, 0, 0, 0)])}

InitFleet ==
    /\ car_data \in [FleetCars -> FleetDatasets]
    /\ distance_history = [c \in FleetCars |-> << >>]
    /\ reset_events = << >>
    /\ recovery_stats = [speed_integration |-> 0, gps_recovery |-> 0,
                         linear_interpolation |-> 0, fallback |-> 0, total_resets |-> 0]
    /\ distance_cache = << >>
    /\ appended = [c \in FleetCars |-> << >>]
    /\ answered = [c \in FleetCars |-> << >>]
    /\ ncalls = 0
    /\ last = CallRecord("init", 0, 0, "none", "none", 0, NoDetection, NoRecovery,
                         "none", RatZero)
    /\ InitServerState
    /\ InitThreadState

\* calculate_distance_traveled for any car of the fleet at any time.
NextFleet ==
    /\ \E car_id \in DOMAIN car_data, up_to_time \in QueryTimes :
          CalculateDistanceTraveled(car_id, up_to_time)
    /\ UNCHANGED <<server_vars, thread_vars>>

SpecFleet == InitFleet /\ [][NextFleet]_vars

----------------------------------------------------------------------------
(* Queries in any order of time over a run of five rows: a slow vehicle    *)
(* that is fast for one minute.                                            *)

ReplaySampleTimes == <<0, 60, 120, 180, 240>>
ReplayQueryTimes == {ReplaySampleTimes[i] : i \in 1..Len(ReplaySampleTimes)}

\* 10 km/h throughout, or with SPEED_ANOMALY_THRESHOLD km/h in the fourth row.
ReplayDatasets ==
    {[i \in 1..Len(ReplaySampleTimes) |->
         ServerRow(ReplaySampleTimes[i], IF i = 4 THEN fourth_speed ELSE 10)] :
       fourth_speed \in {10, SPEED_ANOMALY_THRESHOLD}}

InitReplay ==
    /\ car_data \in [Cars -> ReplayDatasets]
    /\ distance_history = [c \in Cars |-> << >>]
    /\ reset_events = << >>
    /\ recovery_stats = [speed_integration |-> 0, gps_recovery |-> 0,
                         linear_interpolation |-> 0, fallback |-> 0, total_resets |-> 0]
    /\ distance_cache = << >>
    /\ appended = [c \in Cars |-> << >>]
    /\ answered = [c \in Cars |-> << >>]
    /\ ncalls = 0
    /\ last = CallRecord("init", 0, 0, "none", "none", 0, NoDetection, NoRecovery,
                         "none", RatZero)
    /\ InitServerState
    /\ InitThreadState

\* calculate_distance_traveled at any of the rows' times, in any order.
NextReplay ==
    /\ \E car_id \in DOMAIN car_data, up_to_time \in ReplayQueryTimes :
          CalculateDistanceTraveled(car_id, up_to_time)
    /\ UNCHANGED <<server_vars, thread_vars>>

SpecReplay == InitReplay /\ [][NextReplay]_vars

----------------------------------------------------------------------------
(* calculate_distance_traveled statement by statement, run by the timing   *)
(* loop and by a request thread at once, with get_monitoring_status        *)
(* answered by a third thread between any two of their statements.         *)

Threads == {"timing_loop", "request"}

\* What the distance computation leaves alone.
other_vars == <<server_vars, monitoring, current_rankings, race_finished, connected_clients, last_request>>

\* The times the two threads ask for: the rows' timestamps.
ThreadQueryTimes == {0, RaceTimeAdvance, 2 * RaceTimeAdvance, 3 * RaceTimeAdvance}

\* The thread runs no call.
Idle == [pc |-> "idle", car_id |-> 0, up_to_time |-> 0, preliminary_distance |-> 0, detection |-> NoDetection, event_index |-> 0, total_resets |-> 0, recovery_result |-> NoRecovery, final_distance |-> RatZero]

RecoveryMethods == {"speed_integration", "gps_recovery", "linear_interpolation", "fallback"}

InitThreads ==
    /\ car_data \in [Cars -> ServerDatasets]
    /\ distance_history = [c \in Cars |-> << >>]
    /\ reset_events = << >>
    /\ recovery_stats = [speed_integration |-> 0, gps_recovery |-> 0,
                         linear_interpolation |-> 0, fallback |-> 0, total_resets |-> 0]
    /\ distance_cache = << >>
    /\ appended = [c \in Cars |-> << >>]
    /\ answered = [c \in Cars |-> << >>]
    /\ ncalls = 0
    /\ last = CallRecord("init", 0, 0, "none", "none", 0, NoDetection, NoRecovery,
                         "none", RatZero)
    /\ InitServerState
    /\ in_flight = [thread \in Threads |-> Idle]
    /\ monitoring = NoMonitoring
    /\ current_rankings = << >>
    /\ race_finished = 0
    /\ connected_clients = {}
    /\ last_request = "none"

\* The calls that return before detection: a cached key, fewer than 2 rows.
ReturnEarly(thread, car_id, up_to_time) ==
    /\ in_flight[thread].pc = "idle"
    /\ CacheHit(car_id, up_to_time) \/ TooFewSamples(car_id, up_to_time)
    /\ UNCHANGED <<in_flight, other_vars>>

\* Cache miss with at least 2 rows: the preliminary distance is computed from
\* the rows, which no thread writes.
BeginCall(thread, car_id, up_to_time) ==
    /\ in_flight[thread].pc = "idle"
    /\ ~CacheHas(distance_cache, CacheKey(car_id, up_to_time))
    /\ ~HasTooFewSamples(UpTo(car_data[car_id], up_to_time))
    /\ ncalls + Cardinality({t \in Threads : in_flight[t].pc # "idle"}) < MaxCalls
    /\ in_flight' = [in_flight EXCEPT ![thread] = [Idle EXCEPT !.pc = "detect", !.car_id = car_id, !.up_to_time = up_to_time, !.preliminary_distance = PreliminaryDistance(UpTo(car_data[car_id], up_to_time))]]
    /\ UNCHANGED <<engine_vars, other_vars>>

\* detect_distance_reset: a good reading joins the history; a flagged one is
\* appended to reset_events, its recovery_method still ''.
DetectStep(thread) ==
    /\ in_flight[thread].pc = "detect"
    /\ \E call \in {in_flight[thread]} :
       \E detection \in {DetectDistanceReset(distance_history[call.car_id], call.car_id, call.up_to_time, call.preliminary_distance, car_data[call.car_id])} :
          /\ distance_history' = [distance_history EXCEPT ![call.car_id] = detection.history]
          /\ appended' = IF detection.flagged THEN appended
                         ELSE [appended EXCEPT ![call.car_id] = Append(@, Point(call.up_to_time, call.preliminary_distance))]
          /\ reset_events' = EventsAfterDetect(reset_events, detection)
          /\ in_flight' = [in_flight EXCEPT ![thread] =
                [call EXCEPT !.pc = IF detection.flagged THEN "read_total_resets" ELSE "store",
                             !.detection = detection,
                             !.event_index = IF detection.flagged THEN Len(reset_events) + 1 ELSE 0,
                             !.final_distance = FinalDistance(call.preliminary_distance, FALSE, NoRecovery)]]
    /\ UNCHANGED <<car_data, recovery_stats, distance_cache, answered, ncalls, last, other_vars>>

\* self.recovery_stats['total_resets'] += 1, the read of the counter ...
ReadTotalResets(thread) ==
    /\ in_flight[thread].pc = "read_total_resets"
    /\ in_flight' = [in_flight EXCEPT ![thread].pc = "write_total_resets", ![thread].total_resets = recovery_stats.total_resets]
    /\ UNCHANGED <<engine_vars, other_vars>>

\* ... and the write of the value read plus one.
WriteTotalResets(thread) ==
    /\ in_flight[thread].pc = "write_total_resets"
    /\ recovery_stats' = [recovery_stats EXCEPT !.total_resets = in_flight[thread].total_resets + 1]
    /\ in_flight' = [in_flight EXCEPT ![thread].pc = "recover"]
    /\ UNCHANGED <<car_data, distance_history, reset_events, distance_cache, appended, answered, ncalls, last, other_vars>>

\* recover_distance on the event object detect returned: the method's name is
\* written into the logged event and the method's counter is raised.
RecoverStep(thread) ==
    /\ in_flight[thread].pc = "recover"
    /\ \E call \in {in_flight[thread]} :
       \E recovery \in {RecoverDistance(distance_history[call.car_id], car_data[call.car_id], call.detection.event)} :
          /\ reset_events' = [reset_events EXCEPT ![call.event_index].recovery_method = recovery.recovery_method]
          /\ recovery_stats' = StatsAfterRecover(recovery_stats, recovery.recovery_method)
          /\ in_flight' = [in_flight EXCEPT ![thread] =
                [call EXCEPT !.pc = "store",
                             !.recovery_result = recovery.result,
                             !.final_distance = FinalDistance(call.preliminary_distance, TRUE, recovery.result)]]
    /\ UNCHANGED <<car_data, distance_history, distance_cache, appended, answered, ncalls, last, other_vars>>

\* self.distance_cache[cache_key] = final_distance, the size limit, return
StoreStep(thread) ==
    /\ in_flight[thread].pc = "store"
    /\ \E call \in {in_flight[thread]} :
          /\ distance_cache' = CacheStore(distance_cache, CacheKey(call.car_id, call.up_to_time), call.final_distance)
          /\ answered' = [answered EXCEPT ![call.car_id] = Append(@, [time |-> call.up_to_time, result |-> call.final_distance])]
          /\ ncalls' = ncalls + 1
          /\ last' = CallRecord("distance", call.car_id, call.up_to_time, "computed",
                                PreliminaryTier(UpTo(car_data[call.car_id], call.up_to_time)),
                                call.preliminary_distance, call.detection, call.recovery_result,
                                IF ~call.detection.flagged THEN "none"
                                ELSE IF call.recovery_result.success THEN "recovered"
                                ELSE "recovery_failed",
                                call.final_distance)
    /\ in_flight' = [in_flight EXCEPT ![thread] = Idle]
    /\ UNCHANGED <<car_data, distance_history, reset_events, recovery_stats, appended, other_vars>>

\* success_rates of get_monitoring_status, in percent
SuccessRates(stats) ==
    IF stats.total_resets > 0
    THEN [method \in RecoveryMethods |-> Rat(stats[method] * 100, stats.total_resets)]
    ELSE << >>

\* self.reset_events[-10:]
RecentEvents(events) ==
    SubSeq(events, IF Len(events) > 10 THEN Len(events) - 9 ELSE 1, Len(events))

\* get_monitoring_status
MonitoringQuery ==
    /\ monitoring' = [valid |-> TRUE,
                      total_resets_detected |-> Len(reset_events),
                      recovery_stats |-> recovery_stats,
                      success_rates |-> SuccessRates(recovery_stats),
                      recent_events |-> RecentEvents(reset_events)]
    /\ UNCHANGED <<engine_vars, server_vars, in_flight, current_rankings, race_finished, connected_clients, last_request>>

NextThreads ==
    \/ \E thread \in Threads, car_id \in DOMAIN car_data, up_to_time \in ThreadQueryTimes :
          ReturnEarly(thread, car_id, up_to_time)
    \/ \E thread \in Threads, car_id \in DOMAIN car_data, up_to_time \in ThreadQueryTimes :
          BeginCall(thread, car_id, up_to_time)
    \/ \E thread \in Threads : DetectStep(thread)
    \/ \E thread \in Threads : ReadTotalResets(thread)
    \/ \E thread \in Threads : WriteTotalResets(thread)
    \/ \E thread \in Threads : RecoverStep(thread)
    \/ \E thread \in Threads : StoreStep(thread)
    \/ MonitoringQuery

SpecThreads == InitThreads /\ [][NextThreads]_vars

----------------------------------------------------------------------------
(* The timing loop statement by statement: the while test, the rankings,   *)
(* the advance of current_time, and the test after the loop, with the      *)
(* start, stop and reset requests of the routes and WebSocket handlers     *)
(* arriving between any two of them.  Every start_live_timing call spawns  *)
(* a thread of its own.                                                    *)

LoopThreads == 1..MaxLoopThreads

\* A thread that start_live_timing has not spawned yet.
Unstarted == [pc |-> "unstarted", emitted |-> 0]

\* Three rows, one loop iteration apart, at a steady 100 km/h.
LoopDatasets ==
    {<<ServerRow(0, 100), ServerRow(RaceTimeAdvance, 100), ServerRow(2 * RaceTimeAdvance, 100)>>}

InitLoop ==
    /\ car_data \in [Cars -> LoopDatasets]
    /\ distance_history = [c \in Cars |-> << >>]
    /\ reset_events = << >>
    /\ recovery_stats = [speed_integration |-> 0, gps_recovery |-> 0,
                         linear_interpolation |-> 0, fallback |-> 0, total_resets |-> 0]
    /\ distance_cache = << >>
    /\ appended = [c \in Cars |-> << >>]
    /\ answered = [c \in Cars |-> << >>]
    /\ ncalls = 0
    /\ last = CallRecord("init", 0, 0, "none", "none", 0, NoDetection, NoRecovery,
                         "none", RatZero)
    /\ InitServerState
    /\ in_flight = [thread \in LoopThreads |-> Unstarted]
    /\ monitoring = NoMonitoring
    /\ current_rankings = << >>
    /\ race_finished = 0
    /\ connected_clients = {}
    /\ last_request = "none"

\* What the loop and the three requests leave alone.
loop_rest == <<writers, status_pc, status, returned_stats, monitoring, connected_clients>>

\* start_live_timing: is_running = True and a new thread at its while test
StartRequest(thread) ==
    /\ in_flight[thread].pc = "unstarted"
    /\ is_running' = TRUE
    /\ loops' = loops + 1
    /\ in_flight' = [in_flight EXCEPT ![thread].pc = "check"]
    /\ last_request' = "start"
    /\ UNCHANGED <<engine_vars, f1_current_time, current_rankings, race_finished, loop_rest>>

\* stop_live_timing
StopRequest ==
    /\ is_running' = FALSE
    /\ last_request' = "stop"
    /\ UNCHANGED <<engine_vars, f1_current_time, loops, in_flight, current_rankings, race_finished, loop_rest>>

\* reset_race: stop, current_time = race_start_time, current_rankings = []
ResetRequest ==
    /\ is_running' = FALSE
    /\ f1_current_time' = RaceStartTime(car_data)
    /\ current_rankings' = << >>
    /\ last_request' = "reset"
    /\ UNCHANGED <<engine_vars, loops, in_flight, race_finished, loop_rest>>

\* while self.is_running and self.current_time <= end_time
LoopCheck(thread) ==
    /\ in_flight[thread].pc = "check"
    /\ in_flight' = [in_flight EXCEPT ![thread].pc = IF is_running /\ f1_current_time <= EndTime(car_data) THEN "rank" ELSE "finish"]
    /\ UNCHANGED <<engine_vars, f1_current_time, is_running, loops, current_rankings, race_finished, last_request, loop_rest>>

\* The car has rows at the time: not before its first row, not after its last.
HasDataAt(car_positions, synchronized_time) ==
    /\ synchronized_time >= car_positions[1].timeStamp
    /\ synchronized_time <= car_positions[Len(car_positions)].timeStamp

\* calculate_live_rankings: the distance of every car that has rows at
\* current_time (one car here), published as current_rankings
LoopRank(thread) ==
    /\ in_flight[thread].pc = "rank"
    /\ \E car_id \in DOMAIN car_data :
          IF HasDataAt(car_data[car_id], f1_current_time)
          THEN /\ CalculateDistanceTraveled(car_id, f1_current_time)
               /\ current_rankings' = <<[car_id |-> car_id, distance_traveled |-> last'.result]>>
          ELSE /\ current_rankings' = << >>
               /\ UNCHANGED engine_vars
    /\ in_flight' = [in_flight EXCEPT ![thread].pc = "advance"]
    /\ UNCHANGED <<f1_current_time, is_running, loops, race_finished, last_request, loop_rest>>

\* A time that does not advance (an update interval of 0).
AdvancedTimeStalled(current_time) == current_time

\* self.current_time + race_time_advance
AdvancedTime(current_time) == current_time + RaceTimeAdvance

\* self.current_time += race_time_advance, then the sleep
LoopAdvance(thread) ==
    /\ in_flight[thread].pc = "advance"
    /\ f1_current_time' = AdvancedTime(f1_current_time)
    /\ in_flight' = [in_flight EXCEPT ![thread].pc = "check"]
    /\ UNCHANGED <<engine_vars, is_running, loops, current_rankings, race_finished, last_request, loop_rest>>

\* After the loop: past end_time, current_time goes back to race_start_time
\* and 'race_finished' is emitted; the thread ends.
LoopFinish(thread) ==
    /\ in_flight[thread].pc = "finish"
    /\ IF f1_current_time > EndTime(car_data)
       THEN /\ f1_current_time' = RaceStartTime(car_data)
            /\ race_finished' = race_finished + 1
            /\ in_flight' = [in_flight EXCEPT ![thread] = [pc |-> "exited", emitted |-> @.emitted + 1]]
       ELSE /\ in_flight' = [in_flight EXCEPT ![thread].pc = "exited"]
            /\ UNCHANGED <<f1_current_time, race_finished>>
    /\ loops' = loops - 1
    /\ UNCHANGED <<engine_vars, is_running, current_rankings, last_request, loop_rest>>

\* The next statement of a timing-loop thread
LoopStep(thread) ==
    \/ LoopCheck(thread)
    \/ LoopRank(thread)
    \/ LoopAdvance(thread)
    \/ LoopFinish(thread)

NextLoop ==
    \/ \E thread \in LoopThreads : StartRequest(thread)
    \/ StopRequest
    \/ ResetRequest
    \/ \E thread \in LoopThreads : LoopCheck(thread)
    \/ \E thread \in LoopThreads : LoopRank(thread)
    \/ \E thread \in LoopThreads : LoopAdvance(thread)
    \/ \E thread \in LoopThreads : LoopFinish(thread)

SpecLoop == InitLoop /\ [][NextLoop]_vars

\* Each thread the operating system runs gets to its next statement.
SpecLoopFair == SpecLoop /\ \A thread \in LoopThreads : WF_vars(LoopStep(thread))

----------------------------------------------------------------------------
(* The WebSocket connect and disconnect handlers, each on the thread of    *)
(* its own client: handle_connect tests the size of connected_clients and  *)
(* then adds the client's id, and other handlers run between the two.      *)

MAX_CLIENTS == 10

\* Session ids: one client more than the limit admits.
Sids == 1..(MAX_CLIENTS + 1)

\* The client is not connected and no handler runs for it.
Away == [pc |-> "away"]

InitClients ==
    /\ car_data \in [Cars -> LoopDatasets]
    /\ distance_history = [c \in Cars |-> << >>]
    /\ reset_events = << >>
    /\ recovery_stats = [speed_integration |-> 0, gps_recovery |-> 0,
                         linear_interpolation |-> 0, fallback |-> 0, total_resets |-> 0]
    /\ distance_cache = << >>
    /\ appended = [c \in Cars |-> << >>]
    /\ answered = [c \in Cars |-> << >>]
    /\ ncalls = 0
    /\ last = CallRecord("init", 0, 0, "none", "none", 0, NoDetection, NoRecovery,
                         "none", RatZero)
    /\ InitServerState
    /\ in_flight = [sid \in Sids |-> Away]
    /\ monitoring = NoMonitoring
    /\ current_rankings = << >>
    /\ race_finished = 0
    /\ connected_clients = {}
    /\ last_request = "none"

\* What the connection handlers leave alone.
clients_rest == <<engine_vars, server_vars, monitoring, current_rankings, race_finished, last_request>>

\* handle_connect up to its test: at the limit it returns False, the client is
\* turned away and nothing is added.
ConnectCheck(sid) ==
    /\ in_flight[sid].pc = "away"
    /\ in_flight' = [in_flight EXCEPT ![sid].pc = IF Cardinality(connected_clients) >= MAX_CLIENTS THEN "away" ELSE "admitted"]
    /\ UNCHANGED <<connected_clients, clients_rest>>

\* connected_clients.add(request.sid) and the first timing_update
ConnectAdd(sid) ==
    /\ in_flight[sid].pc = "admitted"
    /\ connected_clients' = connected_clients \cup {sid}
    /\ in_flight' = [in_flight EXCEPT ![sid].pc = "connected"]
    /\ UNCHANGED clients_rest

\* handle_disconnect: connected_clients.discard(request.sid)
Disconnect(sid) ==
    /\ in_flight[sid].pc = "connected"
    /\ connected_clients' = connected_clients \ {sid}
    /\ in_flight' = [in_flight EXCEPT ![sid].pc = "away"]
    /\ UNCHANGED clients_rest

NextClients ==
    \/ \E sid \in Sids : ConnectCheck(sid)
    \/ \E sid \in Sids : ConnectAdd(sid)
    \/ \E sid \in Sids : Disconnect(sid)

SpecClients == InitClients /\ [][NextClients]_vars

----------------------------------------------------------------------------
(* Properties.                                                             *)

IsComputedCall(call) == call.op = "distance" /\ call.outcome = "computed"

\* C1: after a cache-missing distance call in which the detector flags an
\* anomaly and the recovery chain returns a value, the last history entry of the
\* vehicle is (query time, returned value).
C1_RecoveredPointRecorded ==
    (IsComputedCall(last) /\ last.flagged /\ last.recovery.success)
        => /\ Len(distance_history[last.car]) > 0
           /\ Last(distance_history[last.car]).time = last.time
           /\ RatInt(Last(distance_history[last.car]).distance) = last.result

\* C2: a distance call in which the detector returns an event adds no history
\* point (so none carrying the flagged preliminary value), takes its final
\* distance from the recovery result, and the cache entry it stores for
\* (vehicle, time) holds that recovered distance.
C2_PreliminaryNotPersisted ==
    [][(IsComputedCall(last') /\ last'.flagged)
          => /\ distance_history' = distance_history
             /\ appended' = appended
             /\ last'.branch = "recovered"
             /\ \E i \in 1..Len(distance_cache') :
                   distance_cache'[i].key = <<last'.car, last'.time>>
             /\ \A i \in 1..Len(distance_cache') :
                   distance_cache'[i].key = <<last'.car, last'.time>>
                       => distance_cache'[i].value = last'.recovery.recovered_distance]_vars

\* A flagged call whose recovered distance differs from the preliminary one.
C2_Witness ==
    /\ IsComputedCall(last) /\ last.flagged
    /\ last.recovery.recovered_distance # RatInt(last.preliminary)

\* C3: the timestamps of every vehicle's history are strictly increasing.
C3_HistoryTimesIncrease ==
    \A c \in DOMAIN distance_history :
        \A i \in 1..(Len(distance_history[c]) - 1) :
            distance_history[c][i].time < distance_history[c][i + 1].time

\* C4: a vehicle's history holds at most MAX_HISTORY_SIZE points and is exactly
\* the most recent min(n, MAX_HISTORY_SIZE) of the n points appended, in order.
C4_HistoryCap ==
    \A c \in DOMAIN distance_history :
        LET n == Len(appended[c])
            k == IF n < MAX_HISTORY_SIZE THEN n ELSE MAX_HISTORY_SIZE
        IN  /\ Len(distance_history[c]) <= MAX_HISTORY_SIZE
            /\ distance_history[c] = SubSeq(appended[c], n - k + 1, n)

\* More points were appended than the history holds.
C4_Witness == \E c \in DOMAIN distance_history : Len(appended[c]) > MAX_HISTORY_SIZE

\* Every row carries a valid non-negative speed and none a position: the
\* speed tier is the one in use at every time.
UninterruptedSpeed(data) ==
    \A i \in 1..Len(data) : ValidSpeedMask(data[i]) /\ ~ValidGpsMask(data[i])

IncreasingTimes(answers) ==
    \A i \in 1..(Len(answers) - 1) : answers[i].time < answers[i + 1].time

\* C5: for a vehicle with uninterrupted valid speed data, the distances returned
\* by calls with increasing query times are non-decreasing.
C5_MonotonicPlausibility ==
    \A c \in DOMAIN answered :
        (UninterruptedSpeed(car_data[c]) /\ IncreasingTimes(answered[c]))
            => \A i, j \in 1..Len(answered[c]) :
                  i < j => RatLE(answered[c][i].result, answered[c][j].result)

\* C6: the cache never holds more than DISTANCE_CACHE_SIZE entries between
\* calls; an insertion that makes it DISTANCE_CACHE_SIZE + 1 removes exactly the
\* CACHE_CLEANUP_THRESHOLD oldest entries in the same call, and any other
\* insertion removes nothing.
C6_BatchEviction ==
    [][IsComputedCall(last')
          => LET inserted == Append(distance_cache,
                                    [key |-> <<last'.car, last'.time>>,
                                     value |-> last'.result])
             IN  /\ Len(distance_cache) <= DISTANCE_CACHE_SIZE
                 /\ IF Len(inserted) = DISTANCE_CACHE_SIZE + 1
                    THEN /\ distance_cache'
                              = SubSeq(inserted, CACHE_CLEANUP_THRESHOLD + 1, Len(inserted))
                         /\ Len(distance_cache')
                              = DISTANCE_CACHE_SIZE + 1 - CACHE_CLEANUP_THRESHOLD
                    ELSE distance_cache' = inserted]_vars

\* The insertion that overflowed the cache has just been made.
C6_Witness ==
    /\ IsComputedCall(last)
    /\ ncalls = DISTANCE_CACHE_SIZE + 1
    /\ Len(distance_cache) = DISTANCE_CACHE_SIZE + 1 - CACHE_CLEANUP_THRESHOLD

\* C7: a distance call whose (vehicle, time) key is in the cache returns the
\* cached value and changes neither the histories, the event log, the recovery
\* counters nor the cache.
C7_CacheHitIsPure ==
    [][(last'.op = "distance"
        /\ \E i \in 1..Len(distance_cache) :
              distance_cache[i].key = <<last'.car, last'.time>>)
          => /\ \E i \in 1..Len(distance_cache) :
                   /\ distance_cache[i].key = <<last'.car, last'.time>>
                   /\ distance_cache[i].value = last'.result
             /\ UNCHANGED <<distance_history, reset_events, recovery_stats,
                            distance_cache, appended, answered>>]_vars

\* A hit on an entry that is not the oldest one, after an anomaly was logged.
C7_Witness ==
    /\ last.op = "distance" /\ last.outcome = "hit"
    /\ Len(distance_cache) >= 2
    /\ distance_cache[1].key # <<last.car, last.time>>
    /\ distance_cache[1].value # last.result
    /\ Len(reset_events) > 0

\* C8: recovery of a flagged value always succeeds: the call takes the
\* 'recovered' branch and returns the recovered distance.
C8_RecoveryAlwaysSucceeds ==
    (IsComputedCall(last) /\ last.flagged)
        => /\ last.recovery.success
           /\ last.branch = "recovered"
           /\ last.result = last.recovery.recovered_distance

\* A flagged call that only the fallback could answer, with a single history point.
C8_Witness ==
    /\ IsComputedCall(last) /\ last.flagged
    /\ last.recovery.method_used = "fallback"
    /\ Len(distance_history[last.car]) = 1

\* C9: the chain returns the result of the earliest of speed_integration,
\* gps_recovery, linear_interpolation, fallback that succeeds on the history and
\* samples of the call; the event gets that name as recovery_method; the
\* counter of that method and total_resets go up by one and no other.
C9_RecoveryPriority ==
    [][(IsComputedCall(last') /\ last'.flagged)
          => LET h == distance_history[last'.car]
                 d == car_data[last'.car]
                 s1 == RecoverBySpeedIntegration(h, d, last'.event)
                 s2 == RecoverByGps(h, d, last'.event)
                 s3 == RecoverByInterpolation(h, d, last'.event)
                 s4 == RecoverByFallback(h, last'.event)
                 first == IF s1.success THEN s1 ELSE IF s2.success THEN s2
                          ELSE IF s3.success THEN s3 ELSE s4
                 name == IF s1.success THEN "speed_integration"
                         ELSE IF s2.success THEN "gps_recovery"
                         ELSE IF s3.success THEN "linear_interpolation"
                         ELSE "fallback"
             IN  /\ last'.recovery = first
                 /\ last'.recovery.method_used = name
                 /\ Len(reset_events') = Len(reset_events) + 1
                 /\ Last(reset_events').recovery_method = name
                 /\ recovery_stats' = [recovery_stats EXCEPT ![name] = @ + 1,
                                                             !.total_resets = @ + 1]]_vars

\* Speed integration answered although GPS recovery would have succeeded with
\* another value.
C9_Witness ==
    /\ IsComputedCall(last) /\ last.flagged
    /\ last.recovery.method_used = "speed_integration"
    /\ RecoverByGps(distance_history[last.car], car_data[last.car], last.event).success
    /\ RecoverByGps(distance_history[last.car], car_data[last.car],
                    last.event).recovered_distance # last.recovery.recovered_distance

\* C10: with a non-empty history, a gap of at most 300 s to its last point,
\* previous > 0, current < previous and a drop over DROP_THRESHOLD_PERCENT, the
\* detector returns a distance_drop event with confidence min(dropPct/100, 1);
\* 1000 -> 150 gives 0.85.
C10_DistanceDrop ==
    [][(last'.op # "init" /\ last'.outcome = "computed"
        /\ Len(distance_history[last'.car]) > 0
        /\ last'.time - Last(distance_history[last'.car]).time <= LARGE_GAP_SECONDS
        /\ Last(distance_history[last'.car]).distance > 0
        /\ last'.preliminary < Last(distance_history[last'.car]).distance
        /\ (Last(distance_history[last'.car]).distance - last'.preliminary) * 100
              > DROP_THRESHOLD_PERCENT * Last(distance_history[last'.car]).distance)
          => LET prev == Last(distance_history[last'.car]).distance
                 cur == last'.preliminary
             IN  /\ last'.flagged
                 /\ last'.event.reset_type = "distance_drop"
                 /\ last'.event.prev_distance = prev
                 /\ last'.event.current_distance = cur
                 /\ last'.event.confidence
                      = (IF cur <= 0 THEN RatOne ELSE Rat(prev - cur, prev))
                 /\ (prev = 1000 /\ cur = 150)
                      => last'.event.confidence = Rat(85, 100)]_vars

\* The detector was given 150 after 1000 and answered with confidence 17/20
\* (0.85 in lowest terms).
C10_Witness ==
    /\ last.op = "detect" /\ last.flagged
    /\ last.event.reset_type = "distance_drop"
    /\ last.event.prev_distance = 1000 /\ last.event.current_distance = 150
    /\ last.event.confidence = [n |-> 17, d |-> 20]

\* C11: with a non-empty history and a gap of at most 300 s, a drop of at most
\* DROP_THRESHOLD_PERCENT (1000 -> 250 is 75%) makes the detector return no event
\* and record the point.
C11_SmallDropNoEvent ==
    [][(last'.op = "detect"
        /\ Len(distance_history[last'.car]) > 0
        /\ last'.time - Last(distance_history[last'.car]).time <= LARGE_GAP_SECONDS
        /\ Last(distance_history[last'.car]).distance > 0
        /\ last'.preliminary < Last(distance_history[last'.car]).distance
        /\ (Last(distance_history[last'.car]).distance - last'.preliminary) * 100
              <= DROP_THRESHOLD_PERCENT * Last(distance_history[last'.car]).distance)
          => /\ ~last'.flagged
             /\ reset_events' = reset_events
             /\ Last(distance_history'[last'.car])
                  = [time |-> last'.time, distance |-> last'.preliminary]]_vars

\* C11 (amended): with a non-empty history and a gap of at most 300 s, a drop
\* of at most DROP_THRESHOLD_PERCENT never gives a distance_drop event; the
\* detector returns no event and records the point exactly when neither the
\* speed check nor the GPS check fires, and otherwise the event is theirs.
C11_SmallDropNoDropEvent ==
    [][(last'.op = "detect"
        /\ Len(distance_history[last'.car]) > 0
        /\ last'.time - Last(distance_history[last'.car]).time <= LARGE_GAP_SECONDS
        /\ Last(distance_history[last'.car]).distance > 0
        /\ last'.preliminary < Last(distance_history[last'.car]).distance
        /\ (Last(distance_history[last'.car]).distance - last'.preliminary) * 100
              <= DROP_THRESHOLD_PERCENT * Last(distance_history[last'.car]).distance)
          => LET prev == Last(distance_history[last'.car])
                 other == \/ SpeedCheck(prev.distance, last'.preliminary,
                                        last'.time - prev.time)
                          \/ GpsCheck(car_data[last'.car], last'.time, last'.preliminary)
             IN  /\ last'.flagged = other
                 /\ last'.flagged
                      => /\ last'.event.reset_type \in {"speed_anomaly", "gps_mismatch"}
                         /\ Len(reset_events') = Len(reset_events) + 1
                 /\ ~last'.flagged
                      => /\ reset_events' = reset_events
                         /\ Last(distance_history'[last'.car])
                              = [time |-> last'.time, distance |-> last'.preliminary]]_vars

\* A drop of exactly 80% (1000 -> 200) over 60 s was recorded without an event.
C11_Witness ==
    /\ last.op = "detect" /\ ~last.flagged
    /\ Len(distance_history[last.car]) >= 2
    /\ LET h == distance_history[last.car]
       IN  /\ h[Len(h)] = [time |-> last.time, distance |-> 200]
           /\ h[Len(h) - 1].distance = 1000
           /\ h[Len(h)].time - h[Len(h) - 1].time = 60

\* C12: when the time since the last history point is over 300 s the detector
\* returns no event, appends (time, distance) to the history (trimmed to
\* MAX_HISTORY_SIZE) and leaves the event log and the counters unchanged.
C12_LargeGapBypass ==
    [][(last'.op = "detect"
        /\ Len(distance_history[last'.car]) > 0
        /\ last'.time - Last(distance_history[last'.car]).time > LARGE_GAP_SECONDS)
          => LET h == Append(distance_history[last'.car],
                             [time |-> last'.time, distance |-> last'.preliminary])
                 k == IF Len(h) > MAX_HISTORY_SIZE THEN Len(h) - MAX_HISTORY_SIZE ELSE 0
             IN  /\ ~last'.flagged
                 /\ distance_history'[last'.car] = SubSeq(h, k + 1, Len(h))
                 /\ reset_events' = reset_events
                 /\ recovery_stats' = recovery_stats]_vars

\* A gap over 300 s across which the distance fell from 1000 to -50, a drop the
\* drop check flags at any smaller gap.
C12_Witness ==
    /\ last.op = "detect" /\ ~last.flagged
    /\ Len(distance_history[last.car]) >= 2
    /\ LET h == distance_history[last.car]
       IN  /\ h[Len(h)].time = last.time
           /\ h[Len(h)].time - h[Len(h) - 1].time > LARGE_GAP_SECONDS
           /\ h[Len(h) - 1].distance = 1000
           /\ h[Len(h)].distance = -50
           /\ DropCheck(1000, -50)

\* C13: a detector call adds at most one event and at most one to total_resets;
\* when the checks run (non-empty history, gap of at most 300 s) the event has
\* the type of the earliest of distance_drop, speed_anomaly, gps_mismatch whose
\* condition holds, and there is no event when none holds.
C13_OneEventInPriorityOrder ==
    [][(last'.op = "detect")
          => /\ Len(reset_events') <= Len(reset_events) + 1
             /\ recovery_stats'.total_resets <= recovery_stats.total_resets + 1
             /\ Len(reset_events') - Len(reset_events) = (IF last'.flagged THEN 1 ELSE 0)
             /\ (Len(distance_history[last'.car]) > 0
                 /\ last'.time - Last(distance_history[last'.car]).time <= LARGE_GAP_SECONDS)
                  => LET prev == Last(distance_history[last'.car])
                         drop == DropCheck(prev.distance, last'.preliminary)
                         speed == SpeedCheck(prev.distance, last'.preliminary,
                                             last'.time - prev.time)
                         gps == GpsCheck(car_data[last'.car], last'.time, last'.preliminary)
                     IN  /\ last'.flagged = (drop \/ speed \/ gps)
                         /\ drop => last'.event.reset_type = "distance_drop"
                         /\ (~drop /\ speed) => last'.event.reset_type = "speed_anomaly"
                         /\ (~drop /\ ~speed /\ gps)
                              => last'.event.reset_type = "gps_mismatch"]_vars

\* The conditions of all three checks hold and the event is a distance_drop.
C13_Witness ==
    /\ last.op = "detect" /\ last.flagged
    /\ last.event.reset_type = "distance_drop"
    /\ Len(reset_events) >= 1
    /\ SpeedCheck(last.event.prev_distance, last.preliminary,
                  last.time - Last(distance_history[last.car]).time)
    /\ GpsCheck(car_data[last.car], last.time, last.preliminary)

\* C14: a detector call on an empty history returns no event and makes
\* (time, distance) the first history point, whatever the distance.
C14_FirstCallRecords ==
    [][(last'.op = "detect" /\ Len(distance_history[last'.car]) = 0)
          => /\ ~last'.flagged
             /\ distance_history'[last'.car]
                  = << [time |-> last'.time, distance |-> last'.preliminary] >>
             /\ reset_events' = reset_events
             /\ recovery_stats' = recovery_stats]_vars

\* The first point of a history is a negative distance.
C14_Witness ==
    /\ last.op = "detect" /\ ~last.flagged
    /\ ncalls = 1
    /\ distance_history[last.car] = << [time |-> last.time, distance |-> -50] >>

\* C18: a distance call for a time with fewer than 2 samples at or before it
\* returns 0 and writes no history point, cache entry, event or counter.
C18_TooFewSamplesReturnsZero ==
    [][(last'.op = "distance"
        /\ Len(SelectSeq(car_data[last'.car], LAMBDA s : s.timeStamp <= last'.time)) < 2)
          => /\ last'.result = RatZero
             /\ UNCHANGED <<distance_history, reset_events, recovery_stats,
                            distance_cache, appended, answered>>]_vars

\* The call with too few samples came after the engine had recorded a point
\* and cached a distance, and found them untouched.
C18_Witness ==
    /\ last.op = "distance" /\ last.outcome = "short"
    /\ last.result = RatZero
    /\ Len(distance_history[last.car]) > 0
    /\ Len(distance_cache) > 0

InUnitInterval(r) == r.d > 0 /\ 0 <= r.n /\ r.n <= r.d

\* C19: every event of the log, the event just returned, the result just
\* returned by the recovery chain and the result of each of its four strategies
\* on the event have a confidence within [0, 1].
C19_ConfidenceInUnitInterval ==
    /\ \A i \in 1..Len(reset_events) : InUnitInterval(reset_events[i].confidence)
    /\ last.flagged
         => /\ InUnitInterval(last.event.confidence)
            /\ LET h == distance_history[last.car]
                   d == car_data[last.car]
               IN  \A r \in {RecoverBySpeedIntegration(h, d, last.event),
                             RecoverByGps(h, d, last.event),
                             RecoverByInterpolation(h, d, last.event),
                             RecoverByFallback(h, last.event)} :
                       InUnitInterval(r.confidence)
    /\ last.op = "recover" => InUnitInterval(last.recovery.confidence)

\* A drop of over 100% (to a negative distance) was logged with confidence 1
\* and the recovery chain returned a result for it.
C19_Witness ==
    /\ last.op = "recover" /\ last.recovery.success
    /\ last.event.reset_type = "distance_drop"
    /\ last.event.current_distance < 0
    /\ RatLT(RatInt(100), last.event.drop_percentage)
    /\ Last(reset_events).confidence = RatOne

\* C20: every event whose type is not distance_drop has drop percentage 0.
C20_DropPercentageZeroUnlessDrop ==
    \A i \in 1..Len(reset_events) :
        reset_events[i].reset_type # "distance_drop"
            => reset_events[i].drop_percentage = RatZero

\* C15: only the timing-loop thread writes the histories, the event log, the
\* counters and the cache; no request thread causes a write to any of them.
C15_OnlyTimingLoopWrites == writers \subseteq {"timing_loop"}

\* C16: the result of a status query is a snapshot of one history state: either
\* nothing was recorded, or last_update and current_distance are those of one
\* appended point and history_points is the length the history had when that
\* point was its last entry.
C16_ConsistentSnapshot ==
    status_pc = "done" =>
        \/ /\ status.history_points = 0
           /\ status.last_update = NaN
           /\ status.current_distance = 0
        \/ \E k \in 1..Len(appended[status.car_id]) :
              /\ appended[status.car_id][k].time = status.last_update
              /\ appended[status.car_id][k].distance = status.current_distance
              /\ status.history_points = IF k < MAX_HISTORY_SIZE THEN k ELSE MAX_HISTORY_SIZE

\* C17: a step of get_car_distance_status or get_monitoring_status, and a write
\* into the counters map get_monitoring_status returned, leave the histories,
\* the event log, the counters and the cache as they were; the map returned
\* holds the counters' values.
C17_QueriesAreReadOnly ==
    [][(status_pc' # status_pc \/ status' # status \/ returned_stats' # returned_stats)
          => /\ UNCHANGED <<distance_history, reset_events, recovery_stats, distance_cache>>
             /\ (returned_stats'.stats # returned_stats.stats
                    => \/ returned_stats'.stats = recovery_stats
                       \/ /\ returned_stats.valid
                          /\ returned_stats'.stats # recovery_stats)]_vars

\* The caller overwrote a counter of the returned map after a reset was counted,
\* and a status query of a car with recorded points has returned.
C17_Witness ==
    /\ returned_stats.valid
    /\ returned_stats.stats.total_resets = -1
    /\ recovery_stats.total_resets > 0
    /\ status_pc = "done"
    /\ status.history_points > 0

\* C21: at most one timing-loop thread drives the engine at any time: never are
\* two loop threads alive with the loop condition true, each about to compute
\* distances and to advance current_time.
C21_AtMostOneLoopThread ==
    ~(loops > 1 /\ is_running /\ f1_current_time <= EndTime(car_data))

\* C22: a distance call for one vehicle leaves the history of every other
\* vehicle unchanged, and the only event it can add to the log carries the id
\* of the vehicle it was made for.
C22_VehiclesIndependent ==
    [][/\ \A other \in DOMAIN distance_history :
             other # last'.car => distance_history'[other] = distance_history[other]
       /\ \/ reset_events' = reset_events
          \/ /\ Len(reset_events') = Len(reset_events) + 1
             /\ SubSeq(reset_events', 1, Len(reset_events)) = reset_events
             /\ Last(reset_events').car_id = last'.car]_vars

\* A call for vehicle 2 has added an event while vehicle 1 has a recorded point
\* and an event of its own.
C22_Witness ==
    /\ IsComputedCall(last) /\ last.flagged /\ last.car = 2
    /\ Last(reset_events).car_id = 2
    /\ Len(distance_history[1]) > 0
    /\ \E i \in 1..Len(reset_events) : reset_events[i].car_id = 1

\* The tier the selection rule names for these rows, a row's position being
\* valid when it is not NaN, not exactly (0, 0) and within range.
TierByValidCoordinates(pos) ==
    IF Len(SelectSeq(pos, LAMBDA r : IsValidGpsCoordinate(r.lat, r.lon))) >= 2 THEN "gps"
    ELSE IF Len(SelectSeq(pos, ValidSpeedMask)) >= 2 THEN "speed"
    ELSE "xy"

\* C23: the preliminary calculator uses the planar-geodetic tier exactly when at
\* least 2 rows have a valid position (not NaN, not (0, 0), within range),
\* otherwise the speed tier exactly when at least 2 rows have a valid speed,
\* otherwise the x/y fallback, and its value is that one tier's sum.
C23_TierSelection ==
    IsComputedCall(last) =>
        LET pos == UpTo(car_data[last.car], last.time)
        IN  /\ last.tier = TierByValidCoordinates(pos)
            /\ last.tier = "gps" => last.preliminary = FlatEarthSum(SelectSeq(pos, ValidGpsMask))
            /\ last.tier = "speed" => last.preliminary = SpeedSum(SelectSeq(pos, ValidSpeedMask))
            /\ last.tier = "xy" => last.preliminary = XYSum(pos)

\* The rows carry no position, and those with a valid speed all carry speed v.
ConstantSpeedNoGps(pos, v) ==
    /\ \A i \in 1..Len(pos) : ~ValidGpsMask(pos[i])
    /\ \A i \in 1..Len(pos) : ValidSpeedMask(pos[i]) => pos[i].speed = v

\* C24: for rows without position that carry one valid speed v and span t
\* seconds from the first to the last row with a valid speed, the preliminary
\* distance is v * 1000/3600 * t, that is v * t / KMH_S_PER_UNIT units.
C24_ConstantSpeedIntegration ==
    IsComputedCall(last) =>
        LET pos == UpTo(car_data[last.car], last.time)
            valid == SelectSeq(pos, ValidSpeedMask)
        IN  \A v \in {pos[i].speed : i \in 1..Len(pos)} :
                (ConstantSpeedNoGps(pos, v) /\ Len(valid) >= 2)
                    => last.preliminary * KMH_S_PER_UNIT
                           = v * (valid[Len(valid)].timeStamp - valid[1].timeStamp)

\* Four rows at a constant speed and without position, integrated over 180 s.
C24_Witness ==
    /\ IsComputedCall(last)
    /\ last.time = 180
    /\ \E v \in {100, 200} :
          /\ ConstantSpeedNoGps(car_data[last.car], v)
          /\ \A i \in 1..Len(car_data[last.car]) : ValidSpeedMask(car_data[last.car][i])
          /\ last.preliminary * KMH_S_PER_UNIT = v * 180

\* C25: when a flagged reading is recovered, the last entry of the vehicle's
\* history is the flagged reading itself, so that the entry before it, the base
\* of speed-integration recovery, is the most recent accepted point (the one
\* whose distance is the event's prev_distance).
C25_SpeedIntegrationBase ==
    (IsComputedCall(last) /\ last.flagged) =>
        LET history == distance_history[last.car]
        IN  /\ Len(history) > 0
            /\ Last(history) = Point(last.time, last.preliminary)
            /\ Len(history) >= 2
                  => history[Len(history) - 1].distance = last.event.prev_distance

\* C26: the fallback strategy succeeds with confidence 0.5 and returns the
\* distance of the most recent history point accepted before the flagged
\* reading, which is the event's prev_distance.
C26_FallbackReturnsLastGood ==
    (IsComputedCall(last) /\ last.flagged /\ last.recovery.method_used = "fallback") =>
        /\ last.recovery.success
        /\ last.recovery.confidence = Rat(5, 10)
        /\ last.recovery.recovered_distance = RatInt(last.event.prev_distance)
        /\ last.recovery.recovered_distance
               = RatInt(Last(distance_history[last.car]).distance)

RECURSIVE SumSeq(_)
SumSeq(q) == IF q = << >> THEN 0 ELSE Head(q) + SumSeq(Tail(q))

\* The rows of a vehicle in (last_good_time, event_time].
RecoveryWindow(data, last_good_time, event_time) ==
    SelectSeq(data, LAMBDA r : r.timeStamp > last_good_time /\ r.timeStamp <= event_time)

\* The sum over the rows of the window that carry a valid speed of
\* min(speed, SPEED_ANOMALY_THRESHOLD) times the time elapsed since the row
\* before (since last_good_time for the first row).
ClampedSpeedIncrement(window, last_good_time) ==
    SumSeq([i \in 1..Len(window) |->
               IF ValidSpeedMask(window[i])
               THEN ((IF window[i].speed < SPEED_ANOMALY_THRESHOLD THEN window[i].speed
                      ELSE SPEED_ANOMALY_THRESHOLD)
                     * (window[i].timeStamp
                           - (IF i = 1 THEN last_good_time ELSE window[i - 1].timeStamp)))
                    \div KMH_S_PER_UNIT
               ELSE 0])

\* C27: speed-integration recovery of a flagged reading, lastGood being the
\* history point it takes as its base (the entry before the last), succeeds
\* exactly when the history has at least 2 points, some row lies in
\* (lastGoodTime, eventTime] and r = lastGood + the clamped speed increment
\* satisfies lastGood < r < 3 * lastGood; it then returns r with confidence
\* 0.9, it never succeeds with lastGood = 0, and the chain returns its result
\* whenever it succeeds.
C27_SpeedIntegrationWindow ==
    (IsComputedCall(last) /\ last.flagged) =>
        LET history == distance_history[last.car]
            by_speed == RecoverBySpeedIntegration(history, car_data[last.car], last.event)
            last_good == history[Len(history) - 1]
            window == RecoveryWindow(car_data[last.car], last_good.time, last.event.timestamp)
            r == last_good.distance + ClampedSpeedIncrement(window, last_good.time)
        IN  /\ Len(history) < 2 => ~by_speed.success
            /\ Len(history) >= 2 =>
                  /\ by_speed.success
                        <=> (Len(window) > 0 /\ last_good.distance < r
                             /\ r < 3 * last_good.distance)
                  /\ by_speed.success
                        => /\ by_speed.recovered_distance = RatInt(r)
                           /\ by_speed.confidence = Rat(9, 10)
                           /\ last_good.distance # 0
            /\ by_speed.success <=> last.recovery.method_used = "speed_integration"
            /\ by_speed.success => last.recovery = by_speed

\* Speed integration has recovered a flagged reading.
C27_Witness ==
    /\ IsComputedCall(last) /\ last.flagged
    /\ last.recovery.method_used = "speed_integration"
    /\ last.recovery.success

\* C28: GPS recovery of a flagged reading succeeds exactly when the haversine
\* distance g from the start to the event time is positive and at least half
\* the distance of the vehicle's last history point; it then returns g with
\* confidence 0.8.  The chain returns its result when speed integration has
\* failed and it succeeds, and goes on to linear interpolation when it fails.
C28_GpsRecovery ==
    (IsComputedCall(last) /\ last.flagged) =>
        LET history == distance_history[last.car]
            data == car_data[last.car]
            g == GpsDistanceFromStart(data, last.event.timestamp)
            by_speed == RecoverBySpeedIntegration(history, data, last.event)
            by_gps == RecoverByGps(history, data, last.event)
            by_interpolation == RecoverByInterpolation(history, data, last.event)
        IN  /\ Len(history) > 0
            /\ by_gps.success <=> (g > 0 /\ 2 * g >= Last(history).distance)
            /\ by_gps.success
                  => /\ by_gps.recovered_distance = RatInt(g)
                     /\ by_gps.confidence = Rat(8, 10)
            /\ ~by_speed.success
                  => /\ by_gps.success <=> last.recovery.method_used = "gps_recovery"
                     /\ by_gps.success => last.recovery = by_gps
                     /\ (~by_gps.success /\ by_interpolation.success)
                           => last.recovery = by_interpolation

\* GPS recovery has answered a flagged reading.
C28_Witness ==
    /\ IsComputedCall(last) /\ last.flagged
    /\ last.recovery.method_used = "gps_recovery"
    /\ last.recovery.success

\* C29: linear-interpolation recovery of a flagged reading fails when the
\* history has fewer than 3 points, when the last 3 points span no positive
\* time, when their average speed is negative or above SPEED_ANOMALY_THRESHOLD,
\* or when the event lies more than INTERPOLATION_MAX_GAP_SECONDS after the
\* last point; otherwise it returns lastDistance + avgSpeed * gap with
\* confidence 0.7.
C29_Interpolation ==
    (IsComputedCall(last) /\ last.flagged) =>
        LET history == distance_history[last.car]
            n == Len(history)
            by_interpolation == RecoverByInterpolation(history, car_data[last.car], last.event)
            change == history[n].distance - history[n - 2].distance
            span == history[n].time - history[n - 2].time
            gap == last.event.timestamp - history[n].time
            fails == \/ n < 3
                     \/ span <= 0
                     \/ change < 0
                     \/ RatLT(RatInt(SPEED_ANOMALY_THRESHOLD), Rat(change * KMH_S_PER_UNIT, span))
                     \/ gap > INTERPOLATION_MAX_GAP_SECONDS
        IN  /\ fails => ~by_interpolation.success
            /\ ~fails
                  => /\ by_interpolation.success
                     /\ by_interpolation.confidence = Rat(7, 10)
                     /\ by_interpolation.recovered_distance.n * span
                            = (history[n].distance * span + change * gap)
                                  * by_interpolation.recovered_distance.d

\* Interpolation has answered a flagged reading from three history points.
C29_Witness ==
    /\ IsComputedCall(last) /\ last.flagged
    /\ last.recovery.method_used = "linear_interpolation"
    /\ last.recovery.success
    /\ Len(distance_history[last.car]) >= 3

\* C30: with a non-empty history, a gap 0 < dt <= 300 s to its last point, no
\* drop over DROP_THRESHOLD_PERCENT and an implied speed |current - previous| / dt
\* above SPEED_ANOMALY_THRESHOLD km/h, the detector returns and logs a
\* speed_anomaly event with confidence min(impliedSpeedKmh / 200, 1); with
\* dt <= 0 it returns no speed_anomaly event.
C30_SpeedAnomaly ==
    [][(last'.op = "detect" /\ Len(distance_history[last'.car]) > 0)
          => LET prev == Last(distance_history[last'.car])
                 cur == last'.preliminary
                 dt == last'.time - prev.time
                 change == Abs(cur - prev.distance)
                 dropped == /\ prev.distance > 0 /\ cur < prev.distance
                            /\ (prev.distance - cur) * 100
                                  > DROP_THRESHOLD_PERCENT * prev.distance
             IN  /\ (0 < dt /\ dt <= LARGE_GAP_SECONDS /\ ~dropped
                     /\ change * KMH_S_PER_UNIT > SPEED_ANOMALY_THRESHOLD * dt)
                       => /\ last'.flagged
                          /\ last'.event.reset_type = "speed_anomaly"
                          /\ last'.event.confidence
                                = (IF change * KMH_S_PER_UNIT >= SPEED_CONFIDENCE_KMH * dt
                                   THEN RatOne
                                   ELSE Rat(change * KMH_S_PER_UNIT, SPEED_CONFIDENCE_KMH * dt))
                          /\ reset_events' = Append(reset_events, last'.event)
                 /\ dt <= 0
                       => ~(last'.flagged /\ last'.event.reset_type = "speed_anomaly")]_vars

\* The detector was given 1000 one minute after -50: 175 km/h, confidence 7/8.
C30_Witness ==
    /\ last.op = "detect" /\ last.flagged
    /\ last.event.reset_type = "speed_anomaly"
    /\ last.event.prev_distance = -50 /\ last.event.current_distance = 1000
    /\ last.event.confidence = [n |-> 7, d |-> 8]

\* C31: after every distance call the cache holds at most DISTANCE_CACHE_SIZE
\* entries, and the entry the call stored for its (vehicle, time) is present
\* with the value the call returned.
C31_CacheBoundedAndFresh ==
    /\ Len(distance_cache) <= DISTANCE_CACHE_SIZE
    /\ IsComputedCall(last)
          => \E i \in 1..Len(distance_cache) :
                /\ distance_cache[i].key = CacheKey(last.car, last.time)
                /\ distance_cache[i].value = last.result

\* The call that stored the newest entry also made the cache evict.
C31_Witness ==
    /\ IsComputedCall(last)
    /\ ncalls > DISTANCE_CACHE_SIZE
    /\ Len(distance_cache) = DISTANCE_CACHE_SIZE + 1 - CACHE_CLEANUP_THRESHOLD
    /\ Last(distance_cache).key = CacheKey(last.car, last.time)
    /\ CACHE_CLEANUP_THRESHOLD >= 1 /\ CACHE_CLEANUP_THRESHOLD <= DISTANCE_CACHE_SIZE

\* C32: over unchanged samples every distance call with the same (vehicle,
\* time) returns the same value, also when the value is computed again after
\* its cache entry was evicted.
C32_DeterministicPerKey ==
    \A c \in DOMAIN answered :
        \A i, j \in 1..Len(answered[c]) :
            answered[c][i].time = answered[c][j].time
                => answered[c][i].result = answered[c][j].result

\* Every row carries a valid non-negative speed and a position that is absent
\* or within range.
PlausibleSamples(data) ==
    \A i \in 1..Len(data) :
        /\ ValidSpeedMask(data[i])
        /\ ~ValidGpsMask(data[i]) \/ IsValidGpsCoordinate(data[i].lat, data[i].lon)

\* C33: over samples with non-negative speeds and real coordinates no distance
\* call returns a negative distance, whatever the order of the query times.
C33_NeverNegative ==
    \A c \in DOMAIN answered :
        PlausibleSamples(car_data[c])
            => \A i \in 1..Len(answered[c]) : answered[c][i].result.n >= 0

\* The sum of the four per-method counters
MethodCounterSum(stats) ==
    stats.speed_integration + stats.gps_recovery + stats.linear_interpolation + stats.fallback

\* No thread is inside calculate_distance_traveled.
NoCallInProgress == \A thread \in DOMAIN in_flight : in_flight[thread].pc = "idle"

\* The success rates of a result, added up, in percent
SuccessRateSum(stats) ==
    (MethodCounterSum(stats) * 100) \div stats.total_resets

\* C34: whenever no distance call is in progress, total_resets equals the
\* length of the event log and the four per-method counters sum to
\* total_resets, so that the success rates sum to 100% when total_resets > 0.
C34_CountersAgree ==
    NoCallInProgress =>
        /\ recovery_stats.total_resets = Len(reset_events)
        /\ MethodCounterSum(recovery_stats) = recovery_stats.total_resets
        /\ recovery_stats.total_resets > 0 => SuccessRateSum(recovery_stats) = 100

\* C35: every event in a get_monitoring_status result carries one of the four
\* method names as recovery_method, never the empty string.
C35_ObservedEventsHaveMethod ==
    monitoring.valid =>
        \A i \in 1..Len(monitoring.recent_events) :
            monitoring.recent_events[i].recovery_method \in RecoveryMethods

\* C36: once a reset has completed and no start has followed, current_time
\* is race_start_time and current_rankings is empty, whatever a loop thread
\* that was inside an iteration does afterwards.
C36_ResetHolds ==
    last_request = "reset" =>
        /\ f1_current_time = RaceStartTime(car_data)
        /\ current_rankings = << >>

\* The thread is between its start and its end.
LoopStarted(thread) == in_flight[thread].pc \in {"check", "rank", "advance", "finish"}

\* The thread leaves the loop and ends in this step.
LoopEnds(thread) == in_flight[thread].pc = "finish" /\ in_flight'[thread].pc = "exited"

\* What a step of the loop's end does: past the last sample time, current_time
\* goes back to race_start_time and race_finished is emitted once; otherwise
\* (the loop was stopped) current_time is left as it is and nothing is emitted.
C37_EndOfLoop ==
    \A thread \in LoopThreads :
        /\ in_flight[thread].pc = "check" /\ in_flight'[thread].pc = "finish" => ~is_running \/ f1_current_time > EndTime(car_data)
        /\ in_flight[thread].pc = "check" /\ in_flight'[thread].pc # "check" /\ ~is_running => in_flight'[thread].pc = "finish"
        /\ LoopEnds(thread) /\ f1_current_time > EndTime(car_data) =>
              /\ f1_current_time' = RaceStartTime(car_data)
              /\ race_finished' = race_finished + 1
              /\ in_flight'[thread].emitted = 1
        /\ LoopEnds(thread) /\ f1_current_time <= EndTime(car_data) =>
              /\ f1_current_time' = f1_current_time
              /\ race_finished' = race_finished
              /\ in_flight'[thread].emitted = 0

C38_AtMostMaxClients == Cardinality(connected_clients) <= MAX_CLIENTS

\* C39: when recover_distance is about to run on the event detect returned,
\* the vehicle's history is non-empty and is the history detect saw, and the
\* event's prev_distance is the distance of the history's last point, so that
\* the fallback never has to use event.prev_distance.
C39_HistoryAtRecovery ==
    \A thread \in DOMAIN in_flight :
        in_flight[thread].pc = "recover" =>
            /\ Len(distance_history[in_flight[thread].car_id]) > 0
            /\ distance_history[in_flight[thread].car_id] = in_flight[thread].detection.history
            /\ in_flight[thread].detection.event.prev_distance = Last(distance_history[in_flight[thread].car_id]).distance

====
